---- MODULE Spec2Model ----
(***************************************************************************)
(* Model of the talk2docs backend (src/backend): the retrieval-augmented   *)
(* answer pipeline of main.py (stream_rag_response and its helpers), the   *)
(* tenant index registry of store.py and the indexing part of              *)
(* ingest_file.py.  Text is modelled by TLA+ strings, Python values by      *)
(* tagged records, Python dicts by insertion-ordered sequences of          *)
(* key/value pairs.                                                        *)
(***************************************************************************)
EXTENDS Integers, Sequences, FiniteSets, TLC

(***************************************************************************)
(* Bounds of the model.                                                    *)
(***************************************************************************)
\* asks served in one behaviour
MaxAsks == 1
\* files ingested in one behaviour
MaxIngests == 1
\* chunks load_and_split hands over for one file
MaxChunks == 1
\* text increments the language model produces for one prompt
MaxLLMChunks == 2
\* chunks in one retrieval result handed to get_relevant_documents on its own
MaxHits == 2
\* chat records already in a tenant's history index when the behaviour starts
MaxOldRecords == 4
\* failures of the collaborators (backing store, language model) in one behaviour
MaxFaults == 2
\* pages of a file given page by page
MaxPages == 2
\* full batches of the longest file ingested
MaxBatches == 2
\* files of one upload given file by file
MaxFiles == 3
\* requests that acquire index handles at the same time
MaxRequests == 2
\* texts in one call of embed_documents
MaxTexts == 2
\* lines of one response body of the multimodal model
MaxLines == 3

(***************************************************************************)
(* Program constants.                                                      *)
(***************************************************************************)
\* get_relevant_history(query, tenant_id, k=3)
HistoryK == 3
\* get_relevant_documents(query, tenant_id, k=10)
DocumentK == 10
\* BATCH_SIZE of ingest_file_bytes
BATCH_SIZE == 100
\* store.py line 19: chunk_size of the text splitter
CHUNK_SIZE == 1200
\* ollama_embeddings.py line 72: the length of the fallback vector
EMBED_DIM == 384

(***************************************************************************)
(* Python values: None, str, int, bool.                                    *)
(***************************************************************************)
PyNone == [t |-> "None"]
PyStr(s) == [t |-> "str", s |-> s]
PyInt(n) == [t |-> "int", n |-> n]
PyBool(b) == [t |-> "bool", b |-> b]

\* bool(v)
Truthy(v) ==
    CASE v.t = "None" -> FALSE
      [] v.t = "str" -> v.s # ""
      [] v.t = "int" -> v.n # 0
      [] v.t = "bool" -> v.b

\* str(v), as an f-string renders the value
Str(v) ==
    CASE v.t = "None" -> "None"
      [] v.t = "str" -> v.s
      [] v.t = "int" -> ToString(v.n)
      [] v.t = "bool" -> IF v.b THEN "True" ELSE "False"

\* a or b
PyOr(a, b) == IF Truthy(a) THEN a ELSE b

(***************************************************************************)
(* Python dicts: a sequence of <<key, value>> pairs in insertion order,    *)
(* no key twice.                                                           *)
(***************************************************************************)
EmptyDict == <<>>

DictKeys(d) == {d[i][1] : i \in 1..Len(d)}

\* d.get(key, default)
DictGet(d, key, default) ==
    IF \E i \in 1..Len(d) : d[i][1] = key
    THEN d[CHOOSE i \in 1..Len(d) : d[i][1] = key][2]
    ELSE default

\* d[key] = value : overwrite in place, or append a new key at the end
DictSet(d, key, value) ==
    IF \E i \in 1..Len(d) : d[i][1] = key
    THEN [i \in 1..Len(d) |-> IF d[i][1] = key THEN <<key, value>> ELSE d[i]]
    ELSE Append(d, <<key, value>>)

\* d.update(other)
RECURSIVE DictUpdate(_, _)
DictUpdate(d, other) ==
    IF other = <<>> THEN d
    ELSE DictUpdate(DictSet(d, other[1][1], other[1][2]), Tail(other))

(***************************************************************************)
(* Strings.                                                                *)
(***************************************************************************)
\* sep.join(parts)
RECURSIVE Join(_, _)
Join(parts, sep) ==
    IF parts = <<>> THEN ""
    ELSE IF Len(parts) = 1 THEN parts[1]
    ELSE parts[1] \o sep \o Join(Tail(parts), sep)

Whitespace == {" ", "\n", "\t", "\r"}

Char(s, i) == SubSeq(s, i, i)

\* s.split() : the maximal runs of non-whitespace characters of s
RECURSIVE SplitFrom(_, _, _, _)
SplitFrom(s, i, word, acc) ==
    IF i > Len(s) THEN (IF word = "" THEN acc ELSE Append(acc, word))
    ELSE IF Char(s, i) \in Whitespace
         THEN SplitFrom(s, i + 1, "", IF word = "" THEN acc ELSE Append(acc, word))
         ELSE SplitFrom(s, i + 1, word \o Char(s, i), acc)

Split(s) == SplitFrom(s, 1, "", <<>>)

\* s.strip()
RECURSIVE LStrip(_)
LStrip(s) ==
    IF s # "" /\ Char(s, 1) \in Whitespace THEN LStrip(SubSeq(s, 2, Len(s))) ELSE s

RECURSIVE RStrip(_)
RStrip(s) ==
    IF s # "" /\ Char(s, Len(s)) \in Whitespace THEN RStrip(SubSeq(s, 1, Len(s) - 1)) ELSE s

Strip(s) == LStrip(RStrip(s))

EndsWith(s, suffix) ==
    Len(s) >= Len(suffix) /\ SubSeq(s, Len(s) - Len(suffix) + 1, Len(s)) = suffix

StartsWith(s, prefix) ==
    Len(s) >= Len(prefix) /\ SubSeq(s, 1, Len(prefix)) = prefix

(***************************************************************************)
(* store.py : the tenant index registry.                                   *)
(***************************************************************************)
\* tenant identifiers of the requests; "" is the missing tenant
Tenants == {"a", "b"}


\* doc_index_name with the f prefix of the f-string forgotten
doc_index_name_literal(tenant_id) == "doc_" \o "{tenant_id}"

\* index_name = f"doc_{tenant_id}"
doc_index_name(tenant_id) == "doc_" \o tenant_id

\* index_name = f"chat_history_{tenant_id}"
chat_index_name(tenant_id) == "chat_history_" \o tenant_id

IndexNames == {doc_index_name(t) : t \in Tenants} \cup {chat_index_name(t) : t \in Tenants}

\* What the backing store can answer to HEAD /<index> and PUT /<index>.
\* "raise" is a transport error of requests.head / requests.put.
CheckOutcomes(exists, index_name) ==
    IF index_name \in exists THEN {"200", "raise"} ELSE {"404", "raise"}

CreateOutcomes(exists, index_name) ==
    IF index_name \in exists THEN {"refused", "raise"} ELSE {"created", "refused", "raise"}

\* One environment of a get_*_vector_store call: the answers to the existence
\* check and to the create request, and whether building the handle raises.
RegistryEnvs(exists, index_name) ==
    {e \in [check : {"200", "404", "raise"},
            create : {"created", "refused", "raise", "unused"},
            handle : {"ok", "raise"}] :
        /\ e.check \in CheckOutcomes(exists, index_name)
        /\ IF e.check = "200" THEN e.create = "unused"
           ELSE e.create \in CreateOutcomes(exists, index_name)}

\* the environment of a call that is not made
UnusedEnv == [check |-> "unused", create |-> "unused", handle |-> "unused"]

\* How many collaborator failures an environment holds.  A refused create of
\* an index that exists is the store's regular answer, not a failure.
EnvFaults(exists, index_name, env) ==
    (IF env.check = "raise" THEN 1 ELSE 0)
    + (IF env.create = "raise" \/ (env.create = "refused" /\ index_name \notin exists)
       THEN 1 ELSE 0)
    + (IF env.handle = "raise" THEN 1 ELSE 0)

\* create_index_if_not_exists: the set of existing indexes afterwards.
\* Nothing is raised: both requests sit in try/except Exception.
create_index_if_not_exists(exists, index_name, env) ==
    IF env.check = "200" THEN exists
    ELSE IF env.create = "created" THEN exists \cup {index_name}
    ELSE exists

\* get_doc_vector_store with a refused create raised to the caller
get_doc_vector_store_strict(exists, tenant_id, env) ==
    LET index_name == doc_index_name(tenant_id)
    IN [exists |-> create_index_if_not_exists(exists, index_name, env),
        raised |-> env.handle = "raise" \/ env.create = "refused",
        index_name |-> index_name]

\* get_doc_vector_store: provision, then build the handle bound to index_name.
get_doc_vector_store(exists, tenant_id, env) ==
    LET index_name == doc_index_name(tenant_id)
    IN [exists |-> create_index_if_not_exists(exists, index_name, env),
        raised |-> env.handle = "raise",
        index_name |-> index_name]

get_chat_history_vector_store(exists, tenant_id, env) ==
    LET index_name == chat_index_name(tenant_id)
    IN [exists |-> create_index_if_not_exists(exists, index_name, env),
        raised |-> env.handle = "raise",
        index_name |-> index_name]

(***************************************************************************)
(* The vector store behind a handle (langchain OpenSearchVectorSearch).    *)
(* An index holds a sequence of items [doc, by]: doc is the Document       *)
(* {page_content, metadata}; by is history, the tenant whose request wrote *)
(* the item.                                                               *)
(***************************************************************************)
Document(page_content, metadata) == [page_content |-> page_content, metadata |-> metadata]

Min(a, b) == IF a <= b THEN a ELSE b

\* The rankings similarity_search(query, k) may return over an index of n
\* items: any selection of at most k distinct positions, in any order.
Rankings(n, k) ==
    UNION {{r \in [1..m -> 1..n] : \A i, j \in 1..m : i # j => r[i] # r[j]} :
              m \in 0..Min(n, k)}

\* similarity_search raises on a missing index and may raise on transport.
SearchOutcomes(exists, content, index_name, k) ==
    {<<"raise">>} \cup
    (IF index_name \in exists
     THEN {<<"ok", r>> : r \in Rankings(Len(content[index_name]), k)}
     ELSE {})

\* A search that raises on an existing index is a failure of the store.
SearchFaults(exists, index_name, outcome) ==
    IF outcome[1] = "raise" /\ index_name \in exists THEN 1 ELSE 0

Hits(content, index_name, outcome) ==
    [i \in 1..Len(outcome[2]) |-> content[index_name][outcome[2][i]]]

DocsOf(hits) == [i \in 1..Len(hits) |-> hits[i].doc]

WritersOf(hits) == {hits[i].by : i \in 1..Len(hits)}

\* add_documents(docs) on success: the items are appended to the index.
AddDocuments(content, index_name, docs, by) ==
    [content EXCEPT ![index_name] =
        @ \o [i \in 1..Len(docs) |-> [doc |-> docs[i], by |-> by]]]

(***************************************************************************)
(* main.py : the helpers of the answer pipeline.                           *)
(***************************************************************************)
NoHistory == "No relevant previous conversation history available."

HistoryPreamble == "Relevant previous conversations:"

\* the f-string "\{empty\}" keeps its backslashes
EmptyContext == "\\{empty\\}"

PageContents(docs) == [i \in 1..Len(docs) |-> docs[i].page_content]

\* get_relevant_history, lines 106-111: what is returned for the docs found
history_block(docs) ==
    IF docs # <<>>
    THEN HistoryPreamble \o "\n" \o Join(PageContents(docs), "\n")
    ELSE NoHistory


\* get_relevant_history without its try/except
get_relevant_history_uncaught(exists, content, query, tenant_id, k, env, search) ==
    LET vs == get_chat_history_vector_store(exists, tenant_id, env)
    IN  IF vs.raised \/ search[1] # "ok"
        THEN [exists |-> vs.exists, raised |-> TRUE, value |-> "", hits |-> <<>>]
        ELSE LET hits == Hits(content, vs.index_name, search)
             IN [exists |-> vs.exists, raised |-> FALSE,
                 value |-> history_block(DocsOf(hits)), hits |-> hits]

\* get_relevant_history: handle, search and formatting all sit in one
\* try/except Exception, so nothing is raised.  search is the outcome of
\* similarity_search(query, k) on the handle's index.
get_relevant_history(exists, content, query, tenant_id, k, env, search) ==
    LET vs == get_chat_history_vector_store(exists, tenant_id, env)
    IN  IF vs.raised \/ search[1] # "ok"
        THEN [exists |-> vs.exists, raised |-> FALSE, value |-> NoHistory, hits |-> <<>>]
        ELSE LET hits == Hits(content, vs.index_name, search)
             IN [exists |-> vs.exists, raised |-> FALSE,
                 value |-> history_block(DocsOf(hits)), hits |-> hits]


\* CitationLabel numbering from the enumerate index itself
CitationLabel_zero_based(i) == "[" \o ToString(i) \o "]"

\* f"[{i+1}]" for the enumerate index i = 0, 1, ...
CitationLabel(i) == "[" \o ToString(i + 1) \o "]"


\* SourceDescriptor testing "if page:" instead of "if page is not None:"
SourceDescriptor_truthy_page(metadata) ==
    LET title == PyOr(DictGet(metadata, "title", PyNone),
                      DictGet(metadata, "source_file", PyStr("Unknown Source")))
        page == DictGet(metadata, "page", PyNone)
    IN  IF Truthy(page)
        THEN Str(title) \o " (page " \o ToString(page.n + 1) \o ")"
        ELSE Str(title)

\* lines 124-130: the descriptor of one retrieved chunk
SourceDescriptor(metadata) ==
    LET title == PyOr(DictGet(metadata, "title", PyNone),
                      DictGet(metadata, "source_file", PyStr("Unknown Source")))
        page == DictGet(metadata, "page", PyNone)
    IN  IF page # PyNone
        THEN Str(title) \o " (page " \o ToString(page.n + 1) \o ")"
        ELSE Str(title)

\* line 121: the numbered context
NumberedContext(docs) ==
    Join([j \in 1..Len(docs) |-> CitationLabel(j - 1) \o " " \o docs[j].page_content], "\n")

\* lines 122-130: the loop filling the sources dict, from enumerate index i on
RECURSIVE BuildSources(_, _, _)
BuildSources(docs, i, sources) ==
    IF i >= Len(docs) THEN sources
    ELSE BuildSources(docs, i + 1,
                      DictSet(sources, CitationLabel(i), SourceDescriptor(docs[i + 1].metadata)))


\* context_and_sources without the "if not docs" branch
context_and_sources_no_sentinel(docs) ==
    [context |-> NumberedContext(docs), sources |-> BuildSources(docs, 0, EmptyDict)]

\* lines 117-132: context and sources for the docs found
context_and_sources(docs) ==
    IF docs = <<>>
    THEN [context |-> EmptyContext, sources |-> EmptyDict]
    ELSE [context |-> NumberedContext(docs), sources |-> BuildSources(docs, 0, EmptyDict)]

\* get_relevant_documents: nothing is caught, a raising handle or search
\* propagates to the caller.
get_relevant_documents(exists, content, query, tenant_id, k, env, search) ==
    LET vs == get_doc_vector_store(exists, tenant_id, env)
    IN  IF vs.raised \/ search[1] # "ok"
        THEN [exists |-> vs.exists, raised |-> TRUE,
              context |-> "", sources |-> EmptyDict, hits |-> <<>>]
        ELSE LET hits == Hits(content, vs.index_name, search)
                 cs == context_and_sources(DocsOf(hits))
             IN [exists |-> vs.exists, raised |-> FALSE,
                 context |-> cs.context, sources |-> cs.sources, hits |-> hits]

\* "\n".join(f"{k} {v}" for k, v in sources.items())
SourcesBlock(sources) ==
    Join([i \in 1..Len(sources) |-> sources[i][1] \o " " \o sources[i][2]], "\n")

\* lines 140-151: the chat record
ChatDocument(query, response, tenant_id) ==
    Document("Q: " \o query \o "\nA: " \o response,
             << <<"type", PyStr("chat_history")>>,
                <<"tenant_id", PyStr(tenant_id)>>,
                <<"query", PyStr(query)>>,
                <<"response", PyStr(response)>> >>)


\* store_chat_history without its try/except
store_chat_history_uncaught(exists, content, query, response, tenant_id, env, write) ==
    LET vs == get_chat_history_vector_store(exists, tenant_id, env)
    IN  IF vs.raised \/ write # "ok"
        THEN [exists |-> vs.exists, content |-> content, raised |-> TRUE, wrote |-> FALSE]
        ELSE [exists |-> vs.exists \cup {vs.index_name},
              content |-> AddDocuments(content, vs.index_name,
                                       <<ChatDocument(query, response, tenant_id)>>, tenant_id),
              raised |-> FALSE, wrote |-> TRUE]

\* store_chat_history with the record added twice
store_chat_history_twice(exists, content, query, response, tenant_id, env, write) ==
    LET vs == get_chat_history_vector_store(exists, tenant_id, env)
    IN  IF vs.raised \/ write # "ok"
        THEN [exists |-> vs.exists, content |-> content, raised |-> FALSE, wrote |-> FALSE]
        ELSE [exists |-> vs.exists \cup {vs.index_name},
              content |-> AddDocuments(content, vs.index_name,
                                       <<ChatDocument(query, response, tenant_id),
                                         ChatDocument(query, response, tenant_id)>>, tenant_id),
              raised |-> FALSE, wrote |-> TRUE]

\* store_chat_history: handle and add_documents sit in one try/except
\* Exception, so nothing is raised.  write is the outcome of add_documents;
\* a successful add_documents leaves the index existing.
store_chat_history(exists, content, query, response, tenant_id, env, write) ==
    LET vs == get_chat_history_vector_store(exists, tenant_id, env)
    IN  IF vs.raised \/ write # "ok"
        THEN [exists |-> vs.exists, content |-> content, raised |-> FALSE, wrote |-> FALSE]
        ELSE [exists |-> vs.exists \cup {vs.index_name},
              content |-> AddDocuments(content, vs.index_name,
                                       <<ChatDocument(query, response, tenant_id)>>, tenant_id),
              raised |-> FALSE, wrote |-> TRUE]


\* FinalResponse as the commented-out line 198 has it: no sources section
FinalResponse_no_sources(response_chunks, sources) == Join(response_chunks, "")

\* lines 200-202: the text handed to store_chat_history
FinalResponse(response_chunks, sources) ==
    Join(response_chunks, "") \o "\n\nSources:\n" \o SourcesBlock(sources)

\* lines 176-181: the values substituted into RAG_TEMPLATE
FormatPrompt(context, sources, chat_history, question) ==
    [context |-> context,
     sources_block |-> SourcesBlock(sources),
     chat_history |-> chat_history,
     question |-> question]

\* ensure_indexes_exist: both handles are built, nothing is caught
ensure_indexes_exist(exists, tenant_id, env_doc, env_chat) ==
    LET d == get_doc_vector_store(exists, tenant_id, env_doc)
    IN  IF d.raised THEN [exists |-> d.exists, raised |-> TRUE]
        ELSE LET c == get_chat_history_vector_store(d.exists, tenant_id, env_chat)
             IN [exists |-> c.exists, raised |-> c.raised]

\* The environments of the two calls of ensure_indexes_exist, in call order.
EnsureEnvs(exists, tenant_id) ==
    UNION {
        IF e1.handle = "raise" THEN {<<e1, UnusedEnv>>}
        ELSE {<<e1, e2>> : e2 \in RegistryEnvs(get_doc_vector_store(exists, tenant_id, e1).exists,
                                               chat_index_name(tenant_id))} :
        e1 \in RegistryEnvs(exists, doc_index_name(tenant_id))}

EnsureFaults(exists, tenant_id, p) ==
    EnvFaults(exists, doc_index_name(tenant_id), p[1])
    + EnvFaults(get_doc_vector_store(exists, tenant_id, p[1]).exists,
                chat_index_name(tenant_id), p[2])

\* Which exceptions the handler "except Exception" catches: CancelledError
\* and GeneratorExit derive from BaseException and pass through it.
except_Exception(exc) == exc = "Exception"


\* line 192 left out: the chunk yielded is not collected
response_chunks_append_dropped(chunks, content) == chunks

\* line 192: response_chunks.append(content), run when the generator is
\* resumed after yield content
response_chunks_append(chunks, content) == Append(chunks, content)

\* stream_loop_next with the finalization inside the loop body
stream_loop_next_eager(at, event) ==
    CASE at = "stream" /\ event = "chunk" -> "yield"
      [] at = "yield" /\ event = "resume" -> "finalize"
      [] at = "stream" /\ event = "StopAsyncIteration" -> "finalize"
      [] OTHER -> IF except_Exception(event) THEN "finalize" ELSE "done"

\* Control flow of the streaming loop and its handler, lines 186-196: the
\* position of the generator after an event at position at.
\*   "stream" : awaiting the next chunk of llm.astream
\*   "yield"  : suspended at yield content
stream_loop_next(at, event) ==
    CASE at = "stream" /\ event = "chunk" -> "yield"
      [] at = "yield" /\ event = "resume" -> "stream"
      [] at = "stream" /\ event = "StopAsyncIteration" -> "finalize"
      [] OTHER -> IF except_Exception(event) THEN "finalize" ELSE "done"

(***************************************************************************)
(* ingest_file.py : ingest_file_bytes after load_and_split.                *)
(***************************************************************************)
\* lines 94-97: a metadata value that is dropped
DroppedValue(v) == v = PyNone \/ (v.t = "str" /\ Strip(v.s) = "")

\* lines 92-99
clean_metadata(metadata) == SelectSeq(metadata, LAMBDA kv : ~DroppedValue(kv[2]))

\* lines 87-108: one chunk as it is indexed
prepare_chunk(doc, filename) ==
    Document(Join(Split(doc.page_content), " "),
             DictUpdate(clean_metadata(doc.metadata),
                        << <<"source_file", PyStr(filename)>>, <<"type", PyStr("document")>> >>))

NumBatches(n) == (n + BATCH_SIZE - 1) \div BATCH_SIZE


\* index_batches with the raise of a failed batch deferred to the end of the loop
RECURSIVE index_batches_continue(_, _, _, _, _, _)
index_batches_continue(content, index_name, chunks, i, failAt, by) ==
    IF i >= Len(chunks) THEN [content |-> content, raised |-> FALSE]
    ELSE IF failAt = i \div BATCH_SIZE + 1
    THEN [content |-> index_batches_continue(content, index_name, chunks,
                                             i + BATCH_SIZE, failAt, by).content,
          raised |-> TRUE]
    ELSE index_batches_continue(
            AddDocuments(content, index_name,
                         SubSeq(chunks, i + 1, Min(i + BATCH_SIZE, Len(chunks))), by),
            index_name, chunks, i + BATCH_SIZE, failAt, by)

\* lines 114-121: the batches from offset i on; batch number failAt raises
\* (0: none does), the batches before it stay written
RECURSIVE index_batches(_, _, _, _, _, _)
index_batches(content, index_name, chunks, i, failAt, by) ==
    IF i >= Len(chunks) THEN [content |-> content, raised |-> FALSE]
    ELSE IF failAt = i \div BATCH_SIZE + 1 THEN [content |-> content, raised |-> TRUE]
    ELSE index_batches(
            AddDocuments(content, index_name,
                         SubSeq(chunks, i + 1, Min(i + BATCH_SIZE, Len(chunks))), by),
            index_name, chunks, i + BATCH_SIZE, failAt, by)


\* ingest_file_bytes returning the number of batches instead of chunks
ingest_file_bytes_batch_count(exists, content, chunks, filename, tenant_id, env, failAt) ==
    IF chunks = <<>>
    THEN [exists |-> exists, content |-> content, raised |-> FALSE, count |-> 0]
    ELSE LET vs == get_doc_vector_store(exists, tenant_id, env)
         IN  IF vs.raised
             THEN [exists |-> vs.exists, content |-> content, raised |-> TRUE, count |-> 0]
             ELSE LET prepared == [i \in 1..Len(chunks) |-> prepare_chunk(chunks[i], filename)]
                      w == index_batches(content, vs.index_name, prepared, 0, failAt, tenant_id)
                  IN [exists |-> IF w.content # content
                                 THEN vs.exists \cup {vs.index_name} ELSE vs.exists,
                      content |-> w.content,
                      raised |-> w.raised,
                      count |-> IF w.raised THEN 0 ELSE NumBatches(Len(chunks))]

\* ingest_file_bytes with the tenant's index provisioned before the chunks
\* are looked at
ingest_file_bytes_provision_first(exists, content, chunks, filename, tenant_id, env, failAt) ==
    LET vs == get_doc_vector_store(exists, tenant_id, env)
    IN  IF vs.raised
        THEN [exists |-> vs.exists, content |-> content, raised |-> TRUE, count |-> 0]
        ELSE IF chunks = <<>>
        THEN [exists |-> vs.exists, content |-> content, raised |-> FALSE, count |-> 0]
        ELSE LET prepared == [i \in 1..Len(chunks) |-> prepare_chunk(chunks[i], filename)]
                 w == index_batches(content, vs.index_name, prepared, 0, failAt, tenant_id)
             IN [exists |-> IF w.content # content
                            THEN vs.exists \cup {vs.index_name} ELSE vs.exists,
                 content |-> w.content,
                 raised |-> w.raised,
                 count |-> IF w.raised THEN 0 ELSE Len(chunks)]

\* ingest_file_bytes with a failed batch logged only, lines 119-121 without
\* the raise
ingest_file_bytes_swallow(exists, content, chunks, filename, tenant_id, env, failAt) ==
    IF chunks = <<>>
    THEN [exists |-> exists, content |-> content, raised |-> FALSE, count |-> 0]
    ELSE LET vs == get_doc_vector_store(exists, tenant_id, env)
         IN  IF vs.raised
             THEN [exists |-> vs.exists, content |-> content, raised |-> TRUE, count |-> 0]
             ELSE LET prepared == [i \in 1..Len(chunks) |-> prepare_chunk(chunks[i], filename)]
                      w == index_batches(content, vs.index_name, prepared, 0, failAt, tenant_id)
                  IN [exists |-> IF w.content # content
                                 THEN vs.exists \cup {vs.index_name} ELSE vs.exists,
                      content |-> w.content,
                      raised |-> FALSE,
                      count |-> Len(chunks)]

\* ingest_file_bytes, with chunks the result of load_and_split
ingest_file_bytes(exists, content, chunks, filename, tenant_id, env, failAt) ==
    IF chunks = <<>>
    THEN [exists |-> exists, content |-> content, raised |-> FALSE, count |-> 0]
    ELSE LET vs == get_doc_vector_store(exists, tenant_id, env)
         IN  IF vs.raised
             THEN [exists |-> vs.exists, content |-> content, raised |-> TRUE, count |-> 0]
             ELSE LET prepared == [i \in 1..Len(chunks) |-> prepare_chunk(chunks[i], filename)]
                      w == index_batches(content, vs.index_name, prepared, 0, failAt, tenant_id)
                  IN [exists |-> IF w.content # content
                                 THEN vs.exists \cup {vs.index_name} ELSE vs.exists,
                      content |-> w.content,
                      raised |-> w.raised,
                      count |-> IF w.raised THEN 0 ELSE Len(chunks)]

\* line 247: file.filename.endswith((".pdf", ".txt", ".docx", ".doc"))
SupportedFile(filename) ==
    \E ext \in {".pdf", ".txt", ".docx", ".doc"} : EndsWith(filename, ext)

(***************************************************************************)
(* The state.                                                              *)
(***************************************************************************)
VARIABLES
    \* the backing store: the set of existing indexes, and index name -> items
    exists, content,
    \* collaborator failures so far
    faults,
    \* the /ask-stream request being served: position and locals of
    \* stream_rag_response
    pc, tenant_id, query, chat_history, context, sources, formatted_prompt,
    pending, response_chunks, response,
    \* what the caller and the collaborators of that request have seen
    termination, forwarded, llmCalls, llmStatus, histFound, docsFound,
    writeResult, failedStep, recordsBefore, asks,
    \* the /ingest-multiple-files request being served
    upPc, upTenant, upFiles, total_chunks, errors, uploadResponse, ingests,
    \* get_relevant_documents applied to a retrieval result on its own
    citeDocs, citeResult,
    \* a function of the program called on its own: its arguments and
    \* environment, and what the call has produced so far
    callIn, callOut

storeVars == <<exists, content>>
askLocals == <<tenant_id, query, chat_history, context, sources, formatted_prompt,
               pending, response_chunks, response>>
askSeen == <<termination, forwarded, llmCalls, llmStatus, histFound, docsFound,
             writeResult, failedStep, recordsBefore, asks>>
askVars == <<pc, askLocals, askSeen>>
upVars == <<upPc, upTenant, upFiles, total_chunks, errors, uploadResponse, ingests>>
citeVars == <<citeDocs, citeResult>>
callVars == <<callIn, callOut>>
vars == <<storeVars, faults, askVars, upVars, citeVars, callVars>>

(***************************************************************************)
(* Inputs.                                                                 *)
(***************************************************************************)
Queries == {"why"}

\* the i-th text increment the language model produces
LLMIncrements(i) == {"tok" \o ToString(i)}

\* a chunk as load_and_split returns it (PyMuPDFLoader metadata)
LoadedChunk ==
    Document("alpha beta",
             << <<"title", PyStr("Guide")>>, <<"author", PyStr("")>>, <<"page", PyInt(0)>> >>)

ChunkLists == {[i \in 1..n |-> LoadedChunk] : n \in 0..MaxChunks}

\* two tenants upload files of the same name
FilePool ==
    {[filename |-> "r.pdf", chunks |-> cs] : cs \in ChunkLists}
    \cup {[filename |-> "x.png", chunks |-> <<>>]}

\* uploads of one file each
FileLists == {<<f>> : f \in FilePool}

\* chat records of earlier answers to tenant "a"
OldRecords ==
    [i \in 1..MaxOldRecords |->
        [doc |-> ChatDocument("why", "old" \o ToString(i) \o "\n\nSources:\n", "a"),
         by |-> "a"]]

EmptyStore == [n \in IndexNames |-> <<>>]

NoPrompt == [context |-> "", sources_block |-> "", chat_history |-> "", question |-> ""]

NoUpload == [status |-> 0, total_chunks |-> 0, errors |-> <<>>]

NoCite == [context |-> "", sources |-> EmptyDict]

NoCall == <<>>

(***************************************************************************)
(* Init: no request in flight; the store is empty or holds tenant b's data. *)
(***************************************************************************)
NoRequest ==
    /\ faults = 0
    /\ pc = "idle" /\ tenant_id = "" /\ query = ""
    /\ chat_history = "" /\ context = "" /\ sources = EmptyDict
    /\ formatted_prompt = NoPrompt /\ pending = <<>>
    /\ response_chunks = <<>> /\ response = ""
    /\ termination = "none" /\ forwarded = <<>> /\ llmCalls = 0 /\ llmStatus = "none"
    /\ histFound = <<"none">> /\ docsFound = <<"none">>
    /\ writeResult = "none" /\ failedStep = "none" /\ recordsBefore = 0 /\ asks = 0
    /\ upPc = "idle" /\ upTenant = "" /\ upFiles = <<>> /\ total_chunks = 0
    /\ errors = <<>> /\ uploadResponse = NoUpload /\ ingests = 0
    /\ citeDocs = <<>> /\ citeResult = NoCite

\* the store after tenant "b" has ingested r.pdf and has been answered once
StoreOfB ==
    [EmptyStore EXCEPT
        ![doc_index_name("b")] =
            <<[doc |-> prepare_chunk(LoadedChunk, "r.pdf"), by |-> "b"]>>,
        ![chat_index_name("b")] =
            <<[doc |-> ChatDocument("why", "tok1\n\nSources:\n", "b"), by |-> "b"]>>]

Init ==
    /\ \/ exists = {} /\ content = EmptyStore
       \/ exists = {doc_index_name("b"), chat_index_name("b")} /\ content = StoreOfB
    /\ NoRequest
    /\ callIn = NoCall /\ callOut = NoCall

(***************************************************************************)
(* /ask-stream : stream_response and the generator stream_rag_response.    *)
(***************************************************************************)
\* stream_response: a missing tenant is answered 400, otherwise the stream
\* starts.
stream_response(t, q) ==
    /\ pc \in {"idle", "done"}
    /\ asks < MaxAsks
    /\ asks' = asks + 1
    /\ tenant_id' = t /\ query' = q
    /\ chat_history' = "" /\ context' = "" /\ sources' = EmptyDict
    /\ formatted_prompt' = NoPrompt /\ pending' = <<>>
    /\ response_chunks' = <<>> /\ response' = ""
    /\ forwarded' = <<>> /\ llmCalls' = 0 /\ llmStatus' = "none"
    /\ histFound' = <<"none">> /\ docsFound' = <<"none">>
    /\ writeResult' = "none" /\ failedStep' = "none"
    /\ IF t = ""
       THEN /\ pc' = "done" /\ termination' = "rejected" /\ recordsBefore' = 0
       ELSE /\ pc' = "ensure" /\ termination' = "open"
            /\ recordsBefore' = Len(content[chat_index_name(t)])
    /\ UNCHANGED <<storeVars, faults, upVars, citeVars, callVars>>

\* line 161
EnsureIndexes ==
    /\ pc = "ensure"
    /\ \E p \in EnsureEnvs(exists, tenant_id) :
          LET r == ensure_indexes_exist(exists, tenant_id, p[1], p[2])
              cost == EnsureFaults(exists, tenant_id, p)
          IN  /\ faults + cost <= MaxFaults
              /\ faults' = faults + cost
              /\ exists' = r.exists
              /\ IF r.raised
                 THEN pc' = "done" /\ termination' = "error" /\ failedStep' = "ensure"
                 ELSE pc' = "history" /\ UNCHANGED <<termination, failedStep>>
    /\ UNCHANGED <<content, askLocals, forwarded, llmCalls, llmStatus, histFound, docsFound,
                   writeResult, recordsBefore, asks, upVars, citeVars, callVars>>

\* line 164
GetHistory ==
    /\ pc = "history"
    /\ \E env \in RegistryEnvs(exists, chat_index_name(tenant_id)) :
       \E search \in
            IF env.handle = "raise" THEN {<<"unused">>}
            ELSE SearchOutcomes(get_chat_history_vector_store(exists, tenant_id, env).exists,
                                content, chat_index_name(tenant_id), HistoryK) :
          LET r == get_relevant_history(exists, content, query, tenant_id, HistoryK, env, search)
              cost == EnvFaults(exists, chat_index_name(tenant_id), env)
                      + SearchFaults(r.exists, chat_index_name(tenant_id), search)
          IN  /\ faults + cost <= MaxFaults
              /\ faults' = faults + cost
              /\ exists' = r.exists
              /\ chat_history' = r.value
              /\ histFound' = IF search[1] = "ok" THEN <<"ok", r.hits>> ELSE <<"failed">>
              /\ IF r.raised
                 THEN pc' = "done" /\ termination' = "error" /\ failedStep' = "history"
                 ELSE pc' = "documents" /\ UNCHANGED <<termination, failedStep>>
    /\ UNCHANGED <<content, tenant_id, query, context, sources, formatted_prompt, pending,
                   response_chunks, response, forwarded, llmCalls, llmStatus, docsFound,
                   writeResult, recordsBefore, asks, upVars, citeVars, callVars>>

\* line 172
GetDocuments ==
    /\ pc = "documents"
    /\ \E env \in RegistryEnvs(exists, doc_index_name(tenant_id)) :
       \E search \in
            IF env.handle = "raise" THEN {<<"unused">>}
            ELSE SearchOutcomes(get_doc_vector_store(exists, tenant_id, env).exists,
                                content, doc_index_name(tenant_id), DocumentK) :
          LET r == get_relevant_documents(exists, content, query, tenant_id, DocumentK, env, search)
              cost == EnvFaults(exists, doc_index_name(tenant_id), env)
                      + SearchFaults(r.exists, doc_index_name(tenant_id), search)
          IN  /\ faults + cost <= MaxFaults
              /\ faults' = faults + cost
              /\ exists' = r.exists
              /\ context' = r.context
              /\ sources' = r.sources
              /\ docsFound' = IF search[1] = "ok" THEN <<"ok", r.hits>> ELSE <<"failed">>
              /\ IF r.raised
                 THEN pc' = "done" /\ termination' = "error" /\ failedStep' = "documents"
                 ELSE pc' = "prompt" /\ UNCHANGED <<termination, failedStep>>
    /\ UNCHANGED <<content, tenant_id, query, chat_history, formatted_prompt, pending,
                   response_chunks, response, forwarded, llmCalls, llmStatus, histFound,
                   writeResult, recordsBefore, asks, upVars, citeVars, callVars>>

\* lines 176-188: the prompt is rendered and handed to llm.astream
InvokeModel ==
    /\ pc = "prompt"
    /\ formatted_prompt' = FormatPrompt(context, sources, chat_history, query)
    /\ llmCalls' = llmCalls + 1
    /\ llmStatus' = "producing"
    /\ pc' = "stream"
    /\ UNCHANGED <<storeVars, faults, tenant_id, query, chat_history, context, sources, pending,
                   response_chunks, response, termination, forwarded, histFound, docsFound,
                   writeResult, failedStep, recordsBefore, asks, upVars, citeVars, callVars>>

\* line 188: the model produces a chunk; line 191 yields it to the caller
LLMChunk(c) ==
    /\ pc = "stream"
    /\ Len(forwarded) < MaxLLMChunks
    /\ pending' = <<c>>
    /\ forwarded' = Append(forwarded, c)
    /\ pc' = stream_loop_next(pc, "chunk")
    /\ UNCHANGED <<storeVars, faults, tenant_id, query, chat_history, context, sources,
                   formatted_prompt, response_chunks, response, termination, llmCalls,
                   llmStatus, histFound, docsFound, writeResult, failedStep, recordsBefore,
                   asks, upVars, citeVars, callVars>>

\* the caller asks for the next chunk: line 192 runs
Resume ==
    /\ pc = "yield"
    /\ response_chunks' = response_chunks_append(response_chunks, pending[1])
    /\ pending' = <<>>
    /\ pc' = stream_loop_next(pc, "resume")
    /\ UNCHANGED <<storeVars, faults, tenant_id, query, chat_history, context, sources,
                   formatted_prompt, response, termination, forwarded, llmCalls, llmStatus,
                   histFound, docsFound, writeResult, failedStep, recordsBefore, asks,
                   upVars, citeVars, callVars>>

\* the model stream ends
LLMEnd ==
    /\ pc = "stream"
    /\ llmStatus' = "ended"
    /\ pc' = stream_loop_next(pc, "StopAsyncIteration")
    /\ UNCHANGED <<storeVars, faults, askLocals, termination, forwarded, llmCalls, histFound,
                   docsFound, writeResult, failedStep, recordsBefore, asks, upVars, citeVars, callVars>>

\* the model stream raises (lines 193-194)
LLMRaise ==
    /\ pc = "stream"
    /\ faults < MaxFaults
    /\ faults' = faults + 1
    /\ llmStatus' = "raised"
    /\ pc' = stream_loop_next(pc, "Exception")
    /\ IF pc' = "done"
       THEN termination' = "error" /\ failedStep' = "stream"
       ELSE UNCHANGED <<termination, failedStep>>
    /\ UNCHANGED <<storeVars, askLocals, forwarded, llmCalls, histFound, docsFound,
                   writeResult, recordsBefore, asks, upVars, citeVars, callVars>>

\* The caller disconnects.  The serving task is cancelled (CancelledError at
\* the await the generator is in) or, with the generator suspended at yield,
\* the generator is closed (GeneratorExit at the yield).
Disconnect ==
    /\ pc \in {"ensure", "history", "documents", "stream", "yield"}
    /\ LET exc == IF pc = "yield" THEN "GeneratorExit" ELSE "CancelledError"
           next == CASE pc \in {"stream", "yield"} -> stream_loop_next(pc, exc)
                     [] pc = "history" -> IF except_Exception(exc) THEN "documents" ELSE "done"
                     [] OTHER -> "done"
       IN  /\ pc' = next
           /\ termination' = IF next = "done" THEN "cancelled" ELSE termination
           /\ chat_history' = IF next = "documents" THEN NoHistory ELSE chat_history
           /\ histFound' = IF next = "documents" THEN <<"failed">> ELSE histFound
    /\ UNCHANGED <<storeVars, faults, tenant_id, query, context, sources, formatted_prompt,
                   pending, response_chunks, response, forwarded, llmCalls, llmStatus,
                   docsFound, writeResult, failedStep, recordsBefore, asks, upVars, citeVars, callVars>>

\* lines 200-202
Finalize ==
    /\ pc = "finalize"
    /\ response' = FinalResponse(response_chunks, sources)
    /\ pc' = "store"
    /\ UNCHANGED <<storeVars, faults, tenant_id, query, chat_history, context, sources,
                   formatted_prompt, pending, response_chunks, askSeen, upVars, citeVars, callVars>>

\* line 204, and the generator ends
StoreChatHistory ==
    /\ pc = "store"
    /\ \E env \in RegistryEnvs(exists, chat_index_name(tenant_id)) :
       \E write \in IF env.handle = "raise" THEN {"unused"} ELSE {"ok", "raise"} :
          LET r == store_chat_history(exists, content, query, response, tenant_id, env, write)
              cost == EnvFaults(exists, chat_index_name(tenant_id), env)
                      + (IF write = "raise" THEN 1 ELSE 0)
          IN  /\ faults + cost <= MaxFaults
              /\ faults' = faults + cost
              /\ exists' = r.exists
              /\ content' = r.content
              /\ writeResult' = IF r.wrote THEN "ok" ELSE "failed"
              /\ IF r.raised
                 THEN termination' = "error" /\ failedStep' = "store"
                 ELSE termination' = "normal" /\ UNCHANGED failedStep
    /\ pc' = "done"
    /\ UNCHANGED <<askLocals, forwarded, llmCalls, llmStatus, histFound, docsFound,
                   recordsBefore, asks, upVars, citeVars, callVars>>

(***************************************************************************)
(* /ingest-multiple-files : ingest_multiple_files_api.                     *)
(***************************************************************************)
\* the request arrives with its form fields
ingest_multiple_files_api(t, files) ==
    /\ upPc = "idle"
    /\ ingests + Len(files) <= MaxIngests
    /\ ingests' = ingests + Len(files)
    /\ upTenant' = t /\ upFiles' = files
    /\ total_chunks' = 0 /\ errors' = <<>>
    /\ uploadResponse' = NoUpload
    /\ upPc' = "start"
    /\ UNCHANGED <<storeVars, faults, askVars, citeVars, callVars>>

\* lines 237-244: tenant check and ensure_indexes_exist
UploadStart ==
    /\ upPc = "start"
    /\ IF upTenant = ""
       THEN /\ uploadResponse' = [NoUpload EXCEPT !.status = 400]
            /\ upPc' = "idle" /\ upFiles' = <<>> /\ upTenant' = ""
            /\ UNCHANGED <<exists, faults>>
       ELSE \E p \in EnsureEnvs(exists, upTenant) :
               LET r == ensure_indexes_exist(exists, upTenant, p[1], p[2])
                   cost == EnsureFaults(exists, upTenant, p)
               IN  /\ faults + cost <= MaxFaults
                   /\ faults' = faults + cost
                   /\ exists' = r.exists
                   /\ IF r.raised
                      THEN /\ uploadResponse' = [NoUpload EXCEPT !.status = 500]
                           /\ upPc' = "idle" /\ upFiles' = <<>> /\ upTenant' = ""
                      ELSE /\ upPc' = "files"
                           /\ UNCHANGED <<uploadResponse, upFiles, upTenant>>
    /\ UNCHANGED <<content, total_chunks, errors, ingests, askVars, citeVars, callVars>>


\* IngestNextFile with a failed file ending the loop
IngestNextFile_stop_on_error ==
    /\ upPc = "files"
    /\ upFiles # <<>>
    /\ LET file == Head(upFiles)
       IN  IF ~SupportedFile(file.filename)
           THEN /\ errors' = Append(errors, "Unsupported file type: " \o file.filename)
                /\ UNCHANGED <<exists, content, total_chunks, faults>>
           ELSE \E env \in IF file.chunks = <<>> THEN {UnusedEnv}
                           ELSE RegistryEnvs(exists, doc_index_name(upTenant)) :
                \E failAt \in IF file.chunks = <<>> \/ env.handle = "raise" THEN {0}
                              ELSE 0..NumBatches(Len(file.chunks)) :
                   LET r == ingest_file_bytes(exists, content, file.chunks, file.filename,
                                              upTenant, env, failAt)
                       cost == (IF file.chunks = <<>> THEN 0
                                ELSE EnvFaults(exists, doc_index_name(upTenant), env))
                               + (IF failAt # 0 THEN 1 ELSE 0)
                   IN  /\ faults + cost <= MaxFaults
                       /\ faults' = faults + cost
                       /\ exists' = r.exists
                       /\ content' = r.content
                       /\ IF r.raised
                          THEN /\ errors' = Append(errors, "Failed to ingest " \o file.filename)
                               /\ UNCHANGED total_chunks
                          ELSE /\ total_chunks' = total_chunks + r.count
                               /\ UNCHANGED errors
    /\ upFiles' = IF errors' # errors THEN <<>> ELSE Tail(upFiles)
    /\ UNCHANGED <<upPc, upTenant, uploadResponse, ingests, askVars, citeVars, callVars>>

\* lines 246-262: one iteration of the loop over the files
IngestNextFile ==
    /\ upPc = "files"
    /\ upFiles # <<>>
    /\ LET file == Head(upFiles)
       IN  IF ~SupportedFile(file.filename)
           THEN /\ errors' = Append(errors, "Unsupported file type: " \o file.filename)
                /\ UNCHANGED <<exists, content, total_chunks, faults>>
           ELSE \E env \in IF file.chunks = <<>> THEN {UnusedEnv}
                           ELSE RegistryEnvs(exists, doc_index_name(upTenant)) :
                \E failAt \in IF file.chunks = <<>> \/ env.handle = "raise" THEN {0}
                              ELSE 0..NumBatches(Len(file.chunks)) :
                   LET r == ingest_file_bytes(exists, content, file.chunks, file.filename,
                                              upTenant, env, failAt)
                       cost == (IF file.chunks = <<>> THEN 0
                                ELSE EnvFaults(exists, doc_index_name(upTenant), env))
                               + (IF failAt # 0 THEN 1 ELSE 0)
                   IN  /\ faults + cost <= MaxFaults
                       /\ faults' = faults + cost
                       /\ exists' = r.exists
                       /\ content' = r.content
                       /\ IF r.raised
                          THEN /\ errors' = Append(errors, "Failed to ingest " \o file.filename)
                               /\ UNCHANGED total_chunks
                          ELSE /\ total_chunks' = total_chunks + r.count
                               /\ UNCHANGED errors
    /\ upFiles' = Tail(upFiles)
    /\ UNCHANGED <<upPc, upTenant, uploadResponse, ingests, askVars, citeVars, callVars>>

\* lines 264-268
UploadReturn ==
    /\ upPc = "files"
    /\ upFiles = <<>>
    /\ uploadResponse' = [status |-> 200, total_chunks |-> total_chunks, errors |-> errors]
    /\ upPc' = "idle"
    /\ upTenant' = "" /\ total_chunks' = 0 /\ errors' = <<>>
    /\ UNCHANGED <<storeVars, faults, upFiles, ingests, askVars, citeVars, callVars>>

(***************************************************************************)
(* The system: one /ask-stream and one /ingest-multiple-files request at a *)
(* time, interleaved at their awaits.                                      *)
(***************************************************************************)
AskNext ==
    \/ \E t \in Tenants \cup {""}, q \in Queries : stream_response(t, q)
    \/ EnsureIndexes
    \/ GetHistory
    \/ GetDocuments
    \/ InvokeModel
    \/ \E c \in LLMIncrements(Len(forwarded) + 1) : LLMChunk(c)
    \/ Resume
    \/ LLMEnd
    \/ LLMRaise
    \/ Disconnect
    \/ Finalize
    \/ StoreChatHistory

UploadNext ==
    \/ \E t \in Tenants \cup {""}, files \in FileLists : ingest_multiple_files_api(t, files)
    \/ UploadStart
    \/ IngestNextFile
    \/ UploadReturn

Next == AskNext \/ UploadNext

Spec == Init /\ [][Next]_vars

(***************************************************************************)
(* The answer pipeline on its own: one /ask-stream request at a time over  *)
(* a store that earlier uploads and answers of tenant "a" have filled.     *)
(***************************************************************************)
\* a chunk as load_and_split returns it for a text file (TextLoader metadata)
TextChunk == Document("gamma", << <<"source", PyStr("/tmp/n.txt")>> >>)

\* tenant "a" has ingested r.pdf and n.txt
DocsOfA ==
    <<[doc |-> prepare_chunk(LoadedChunk, "r.pdf"), by |-> "a"],
      [doc |-> prepare_chunk(TextChunk, "n.txt"), by |-> "a"]>>

AskStores ==
    {[EmptyStore EXCEPT ![doc_index_name("a")] = d, ![chat_index_name("a")] = h] :
        d \in {<<>>, DocsOfA}, h \in {<<>>, OldRecords}}

InitAsk ==
    /\ content \in AskStores
    /\ exists = {n \in IndexNames : content[n] # <<>>}
    /\ NoRequest
    /\ callIn = NoCall /\ callOut = NoCall

SpecAsk == InitAsk /\ [][AskNext]_vars

(***************************************************************************)
(* get_relevant_documents on its own: lines 117-132 applied to a retrieval *)
(* result whose chunks carry any of the metadata the descriptor reads.     *)
(***************************************************************************)
CiteMetadata ==
    {title \o source_file \o page :
        title \in {<<>>, << <<"title", PyStr("Guide")>> >>},
        source_file \in {<<>>, << <<"source_file", PyStr("r.pdf")>> >>},
        page \in {<<>>, << <<"page", PyInt(0)>> >>, << <<"page", PyInt(1)>> >>}}

CitePool == {Document("text " \o ToString(Len(m)), m) : m \in CiteMetadata}

CiteInputs == UNION {[1..n -> CitePool] : n \in 0..MaxHits}

InitCite ==
    /\ exists = {} /\ content = EmptyStore
    /\ faults = 0
    /\ pc = "idle" /\ tenant_id = "" /\ query = ""
    /\ chat_history = "" /\ context = "" /\ sources = EmptyDict
    /\ formatted_prompt = NoPrompt /\ pending = <<>>
    /\ response_chunks = <<>> /\ response = ""
    /\ termination = "none" /\ forwarded = <<>> /\ llmCalls = 0 /\ llmStatus = "none"
    /\ histFound = <<"none">> /\ docsFound = <<"none">>
    /\ writeResult = "none" /\ failedStep = "none" /\ recordsBefore = 0 /\ asks = 0
    /\ upPc = "idle" /\ upTenant = "" /\ upFiles = <<>> /\ total_chunks = 0
    /\ errors = <<>> /\ uploadResponse = NoUpload /\ ingests = 0
    /\ citeDocs \in CiteInputs /\ citeResult = NoCite
    /\ callIn = NoCall /\ callOut = NoCall

ApplyCite ==
    /\ citeResult = NoCite
    /\ citeResult' = context_and_sources(citeDocs)
    /\ UNCHANGED <<storeVars, faults, askVars, upVars, citeDocs, callVars>>

SpecCite == InitCite /\ [][ApplyCite]_vars

(***************************************************************************)
(* Properties of the answer pipeline.                                      *)
(***************************************************************************)
\* the stages of stream_rag_response after the model stream has been left
AfterStream == {"finalize", "store", "done"}

\* some tenant's chat index changes in this step
ChatIndexWritten ==
    \E t \in Tenants : content'[chat_index_name(t)] # content[chat_index_name(t)]

\* C1: the chat record of an ask is written only after the model stream has
\* been fully consumed or has terminated: a step that changes a chat index is
\* the store step, taken with the model stream ended or raised and every
\* chunk the model produced already forwarded and collected.
C1_WriteOnlyAfterStream ==
    [][ChatIndexWritten =>
          /\ pc = "store" /\ pc' = "done"
          /\ llmStatus \in {"ended", "raised"}
          /\ pending = <<>>
          /\ response_chunks = forwarded
          /\ Len(content'[chat_index_name(tenant_id)]) = recordsBefore + 1]_vars

\* an ask that streamed two chunks to the end and then wrote its record
C1_Witness ==
    /\ pc = "done" /\ writeResult = "ok"
    /\ llmStatus = "ended"
    /\ Len(forwarded) >= 2

\* C2: when the model stream raises after n chunks, forwarding stops, and
\* the one record written holds the n chunks concatenated, then
\* "\n\nSources:\n", then the sources block the prompt was given; the ask
\* ends normally and nothing but model chunks was forwarded.
C2_PartialAnswerRecorded ==
    llmStatus = "raised" =>
        /\ pc \in AfterStream
        /\ response_chunks = forwarded
        /\ \A i \in 1..Len(forwarded) : forwarded[i] \in LLMIncrements(i)
        /\ pc \in {"store", "done"} =>
              response = Join(forwarded, "") \o "\n\nSources:\n"
                            \o formatted_prompt.sources_block
        /\ pc = "done" => termination = "normal" /\ failedStep = "none"
        /\ pc = "done" /\ writeResult = "ok" =>
              LET idx == content[chat_index_name(tenant_id)]
              IN  /\ Len(idx) = recordsBefore + 1
                  /\ idx[Len(idx)].doc = ChatDocument(query, response, tenant_id)

\* the model raised after one chunk, with cited sources, and the record is in
C2_Witness ==
    /\ pc = "done" /\ llmStatus = "raised" /\ writeResult = "ok"
    /\ Len(forwarded) >= 1
    /\ sources # EmptyDict

\* C3: stated as the specification has it: an ask whose caller disconnected
\* while the model was producing has still attempted the chat-history write.
C3_WriteAttemptedAfterDisconnect ==
    (pc = "done" /\ termination = "cancelled" /\ llmStatus = "producing")
        => writeResult # "none"

\* C4: stated as the specification has it: whichever of chat-history
\* retrieval, document retrieval or the model stream fails, an ask that was
\* not cancelled ends having built the final text with its sources section
\* and attempted the chat-history write.
C4_FinalizationAlwaysReached ==
    (pc = "done" /\ termination \in {"normal", "error"} /\ failedStep # "ensure")
        => /\ writeResult # "none"
           /\ EndsWith(response, "\n\nSources:\n" \o SourcesBlock(sources))

\* tenant identifiers the index names are compared over, among them ones
\* that look like the other purpose's prefix
NameTenants == Tenants \cup {"history_a", "doc_a", "a_b"}

\* C5: an ask of tenant t builds its context and citation mapping only from
\* chunks that ingest wrote for t and its history block only from chat
\* records that earlier asks of t wrote; two (tenant, purpose) pairs never
\* share an index name.
C5_TenantIsolation ==
    /\ \A t1, t2 \in NameTenants :
          /\ doc_index_name(t1) # chat_index_name(t2)
          /\ t1 # t2 => /\ doc_index_name(t1) # doc_index_name(t2)
                        /\ chat_index_name(t1) # chat_index_name(t2)
    /\ docsFound[1] = "ok" =>
          /\ WritersOf(docsFound[2]) \subseteq {tenant_id}
          /\ \A i \in 1..Len(docsFound[2]) :
                DictGet(docsFound[2][i].doc.metadata, "type", PyNone) = PyStr("document")
          /\ context = context_and_sources(DocsOf(docsFound[2])).context
          /\ sources = context_and_sources(DocsOf(docsFound[2])).sources
    /\ histFound[1] = "ok" =>
          /\ WritersOf(histFound[2]) \subseteq {tenant_id}
          /\ \A i \in 1..Len(histFound[2]) :
                /\ DictGet(histFound[2][i].doc.metadata, "type", PyNone) = PyStr("chat_history")
                /\ DictGet(histFound[2][i].doc.metadata, "tenant_id", PyNone) = PyStr(tenant_id)
          /\ chat_history = history_block(DocsOf(histFound[2]))

\* tenant a asks and cites its own chunk while tenant b holds a chunk of a
\* file of the same name and a chat record
C5_Witness ==
    /\ tenant_id = "a" /\ pc = "prompt"
    /\ docsFound[1] = "ok" /\ Len(docsFound[2]) >= 1
    /\ content[doc_index_name("b")] # <<>>
    /\ content[chat_index_name("b")] # <<>>
    /\ histFound = <<"ok", <<>>>>

\* C6: a failed or empty chat-history retrieval gives the literal "No
\* relevant previous conversation history available."; otherwise the block
\* is the preamble line followed by the texts of at most 3 retrieved chat
\* records, one per line, in retrieval order.  In every case the ask goes on
\* to document retrieval and, from there, renders that block into the prompt.
C6_HistoryBlock ==
    histFound[1] # "none" =>
        /\ failedStep # "history"
        /\ pc \in {"documents", "prompt", "stream", "yield"} \cup AfterStream
        /\ histFound = <<"failed">> =>
              chat_history = "No relevant previous conversation history available."
        /\ histFound = <<"ok", <<>>>> =>
              chat_history = "No relevant previous conversation history available."
        /\ (histFound[1] = "ok" /\ histFound[2] # <<>>) =>
              LET hits == histFound[2]
              IN  /\ Len(hits) <= 3
                  /\ chat_history =
                        "Relevant previous conversations:\n"
                           \o Join([i \in 1..Len(hits) |-> hits[i].doc.page_content], "\n")
        /\ llmCalls = 1 => formatted_prompt.chat_history = chat_history

\* chat-history retrieval failed and the ask still reached the model
C6_Witness ==
    /\ histFound = <<"failed">>
    /\ pc = "stream" /\ llmCalls = 1
    /\ formatted_prompt.chat_history = NoHistory

\* C7: a failed chat-history write is not surfaced: the ask ends exactly as
\* one whose write succeeded, with every model chunk forwarded and no error.
C7_WriteFailureNotSurfaced ==
    (pc = "done" /\ writeResult \in {"ok", "failed"}) =>
        /\ termination = "normal"
        /\ failedStep = "none"
        /\ forwarded = response_chunks
        /\ writeResult = "failed" =>
              Len(content[chat_index_name(tenant_id)]) = recordsBefore

\* the write failed after two chunks had been streamed
C7_Witness ==
    /\ pc = "done" /\ writeResult = "failed"
    /\ llmStatus = "ended" /\ Len(forwarded) >= 2

\* C8: K retrieved chunks get the labels [1] .. [K] in retrieval order, the
\* same label on the chunk's context line and on its entry of the citation
\* mapping; the mapping has exactly K entries, duplicates included.
C8_CitationLabels ==
    (citeResult # NoCite /\ citeDocs # <<>>) =>
        LET K == Len(citeDocs)
        IN  /\ Len(citeResult.sources) = K
            /\ \A i \in 1..K :
                  /\ citeResult.sources[i][1] = "[" \o ToString(i) \o "]"
                  /\ citeResult.sources[i][2] = SourceDescriptor(citeDocs[i].metadata)
            /\ citeResult.context =
                  Join([i \in 1..K |->
                          "[" \o ToString(i) \o "] " \o citeDocs[i].page_content], "\n")

\* the same chunk retrieved twice keeps two labels
C8_Witness ==
    /\ citeResult # NoCite
    /\ Len(citeDocs) = 2 /\ citeDocs[1] = citeDocs[2]
    /\ Len(citeResult.sources) = 2

\* C9: the descriptor of a label is the chunk's title, else its source
\* file, else "Unknown Source"; a chunk with page number p gets the suffix
\* " (page p+1)", so page 0 reads "(page 1)".
C9_SourceDescriptor ==
    citeResult # NoCite =>
        \A i \in 1..Len(citeDocs) :
            LET md == citeDocs[i].metadata
                d == citeResult.sources[i][2]
                name == IF "title" \in DictKeys(md)
                        THEN DictGet(md, "title", PyNone).s
                        ELSE IF "source_file" \in DictKeys(md)
                             THEN DictGet(md, "source_file", PyNone).s
                             ELSE "Unknown Source"
            IN  /\ "page" \notin DictKeys(md) => d = name
                /\ "page" \in DictKeys(md) =>
                      d = name \o " (page "
                               \o ToString(DictGet(md, "page", PyNone).n + 1) \o ")"
                /\ DictGet(md, "page", PyNone) = PyInt(0) => EndsWith(d, " (page 1)")

\* a chunk with neither title nor source file, on page 0
C9_Witness ==
    /\ citeResult # NoCite
    /\ \E i \in 1..Len(citeDocs) :
          /\ citeDocs[i].metadata = << <<"page", PyInt(0)>> >>
          /\ citeResult.sources[i][2] = "Unknown Source (page 1)"

\* C10: when document retrieval finds no chunk, the context is the
\* empty-context sentinel and the citation mapping is empty, the model is
\* still invoked with that prompt, and the text recorded ends with
\* "\n\nSources:\n" and nothing after it.
C10_EmptyRetrieval ==
    docsFound = <<"ok", <<>>>> =>
        /\ context = "\\{empty\\}" /\ sources = EmptyDict
        /\ pc \in {"prompt", "stream", "yield"} \cup AfterStream
        /\ pc # "prompt" =>
              /\ llmCalls = 1
              /\ formatted_prompt.context = "\\{empty\\}"
              /\ formatted_prompt.sources_block = ""
        /\ pc \in {"store", "done"} /\ termination # "cancelled" =>
              response = Join(forwarded, "") \o "\n\nSources:\n"
        /\ pc = "done" /\ writeResult = "ok" =>
              LET idx == content[chat_index_name(tenant_id)]
              IN  EndsWith(idx[Len(idx)].doc.page_content, "\n\nSources:\n")

\* nothing was retrieved, the model answered and the record is in
C10_Witness ==
    /\ docsFound = <<"ok", <<>>>>
    /\ pc = "done" /\ writeResult = "ok"
    /\ Len(forwarded) >= 1
    /\ EndsWith(response, "\n\nSources:\n")

(***************************************************************************)
(* Requests with input errors: /ask-stream also receives the empty query.  *)
(***************************************************************************)
InputNext ==
    \/ \E t \in Tenants \cup {""} : stream_response(t, "")
    \/ AskNext
    \/ UploadNext

SpecInput == Init /\ [][InputNext]_vars

\* C11: stated as the specification has it: a request with an input error
\* (empty tenant, empty query, unsupported file type) is rejected before any
\* work: an ask with an empty tenant or query never retrieves, invokes the
\* model or writes, and its steps leave the store alone; an upload with an
\* empty tenant is answered 400 with the store left alone; an unsupported
\* file is passed over with the store left alone.
C11_InputErrorsRejected ==
    [][/\ (tenant_id' = "" \/ query' = "") =>
             /\ histFound' = <<"none">> /\ docsFound' = <<"none">>
             /\ llmCalls' = 0 /\ writeResult' = "none"
             /\ askVars' # askVars => UNCHANGED <<storeVars, faults>>
       /\ (upPc = "start" /\ upTenant = "" /\ upVars' # upVars) =>
             /\ uploadResponse'.status = 400
             /\ UNCHANGED <<storeVars, faults>>
       /\ (upPc = "files" /\ upFiles # <<>> /\ upFiles' # upFiles
             /\ ~SupportedFile(Head(upFiles).filename)) =>
             /\ UNCHANGED <<storeVars, faults>>
             /\ Len(errors') = Len(errors) + 1]_vars

(***************************************************************************)
(* store.py : clean_text, one operator per statement of the function.      *)
(***************************************************************************)
Letters == "abcdefghijklmnopqrstuvwxyz"

Capitals == "ABCDEFGHIJKLMNOPQRSTUVWXYZ"

Digits == "0123456789"

\* the characters \w matches
WordChars ==
    {Char(Letters, i) : i \in 1..Len(Letters)} \cup {Char(Capitals, i) : i \in 1..Len(Capitals)}
    \cup {Char(Digits, i) : i \in 1..Len(Digits)} \cup {"_"}

\* the characters [.,;:!?] matches
Punctuation == {".", ",", ";", ":", "!", "?"}

\* the end of the run of characters of the set cs that starts at position i
\* (i - 1 when the character at i is not in cs)
RECURSIVE RunEnd(_, _, _)
RunEnd(s, i, cs) ==
    IF i <= Len(s) /\ Char(s, i) \in cs THEN RunEnd(s, i + 1, cs) ELSE i - 1

\* line 131: ' '.join(text.split())
JoinWords(s) == Join(Split(s), " ")

\* line 132: re.sub(r'(\w+)-\s+(\w+)', r'\1\2', text), scanning from i
RECURSIVE Dehyphenate(_, _)
Dehyphenate(s, i) ==
    IF i > Len(s) THEN ""
    ELSE IF Char(s, i) \notin WordChars THEN Char(s, i) \o Dehyphenate(s, i + 1)
    ELSE LET e == RunEnd(s, i, WordChars)
             w == RunEnd(s, e + 2, Whitespace)
             e2 == RunEnd(s, w + 1, WordChars)
         IN  IF e + 1 <= Len(s) /\ Char(s, e + 1) = "-" /\ w >= e + 2 /\ e2 >= w + 1
             THEN SubSeq(s, i, e) \o SubSeq(s, w + 1, e2) \o Dehyphenate(s, e2 + 1)
             ELSE SubSeq(s, i, e) \o Dehyphenate(s, e + 1)

\* line 139: re.sub(r'[^\w\s.,;:!?\-]', ' ', text)
RECURSIVE BlankSpecials(_, _)
BlankSpecials(s, i) ==
    IF i > Len(s) THEN ""
    ELSE (IF Char(s, i) \in WordChars \cup Whitespace \cup Punctuation \cup {"-"}
          THEN Char(s, i) ELSE " ") \o BlankSpecials(s, i + 1)

\* line 142: re.sub(r'\s+([.,;:!?])', r'\1', text)
RECURSIVE CloseUpPunctuation(_, _)
CloseUpPunctuation(s, i) ==
    IF i > Len(s) THEN ""
    ELSE IF Char(s, i) \notin Whitespace THEN Char(s, i) \o CloseUpPunctuation(s, i + 1)
    ELSE LET w == RunEnd(s, i, Whitespace)
         IN  IF w + 1 <= Len(s) /\ Char(s, w + 1) \in Punctuation
             THEN Char(s, w + 1) \o CloseUpPunctuation(s, w + 2)
             ELSE SubSeq(s, i, w) \o CloseUpPunctuation(s, w + 1)

\* line 143: re.sub(r'([.,;:!?])(?!\s)', r'\1 ', text)
RECURSIVE SpaceAfterPunctuation(_, _)
SpaceAfterPunctuation(s, i) ==
    IF i > Len(s) THEN ""
    ELSE IF Char(s, i) \in Punctuation /\ (i = Len(s) \/ Char(s, i + 1) \notin Whitespace)
         THEN Char(s, i) \o " " \o SpaceAfterPunctuation(s, i + 1)
         ELSE Char(s, i) \o SpaceAfterPunctuation(s, i + 1)

\* line 146: re.sub(r'\s+', ' ', text)
RECURSIVE CollapseWhitespace(_, _)
CollapseWhitespace(s, i) ==
    IF i > Len(s) THEN ""
    ELSE IF Char(s, i) \in Whitespace
         THEN " " \o CollapseWhitespace(s, RunEnd(s, i, Whitespace) + 1)
         ELSE Char(s, i) \o CollapseWhitespace(s, i + 1)

\* clean_text(text) with preserve_special_chars False
clean_text(text) ==
    IF text = "" THEN ""
    ELSE LET t1 == Dehyphenate(JoinWords(text), 1)
             t2 == BlankSpecials(t1, 1)
             t3 == CloseUpPunctuation(t2, 1)
             t4 == SpaceAfterPunctuation(t3, 1)
             t5 == CollapseWhitespace(t4, 1)
         IN  Strip(t5)

(***************************************************************************)
(* ingest_file.py : load_and_split.  loaded is what loader.load() did for  *)
(* the file: <<"ok", docs>> or <<"raise", message>>.                       *)
(***************************************************************************)
RECURSIVE LastIndexOf(_, _, _)
LastIndexOf(s, c, i) ==
    IF i = 0 THEN 0 ELSE IF Char(s, i) = c THEN i ELSE LastIndexOf(s, c, i - 1)

RECURSIVE IndexIn(_, _, _)
IndexIn(s, c, i) ==
    IF i > Len(s) THEN 0 ELSE IF Char(s, i) = c THEN i ELSE IndexIn(s, c, i + 1)

\* str.lower()
RECURSIVE Lower(_)
Lower(s) ==
    IF s = "" THEN ""
    ELSE LET k == IndexIn(Capitals, Char(s, 1), 1)
         IN  (IF k = 0 THEN Char(s, 1) ELSE Char(Letters, k)) \o Lower(SubSeq(s, 2, Len(s)))

\* Path(filename).suffix for a file name without directories
PathSuffix(filename) ==
    LET p == LastIndexOf(filename, ".", Len(filename))
    IN  IF 1 < p /\ p < Len(filename) THEN SubSeq(filename, p, Len(filename)) ELSE ""

\* lines 41-44: the document that stands in for a file that did not load
ErrorDocument(filename, message) ==
    Document("Error loading file: " \o filename \o ". Error: " \o message,
             << <<"source", PyStr(filename)>>, <<"error", PyBool(TRUE)>> >>)


\* LoadedDocs without the fallback document: a failed load leaves no docs
LoadedDocs_no_fallback(loaded, filename) ==
    IF Lower(PathSuffix(filename)) \in {".pdf", ".txt", ".docx", ".doc"} /\ loaded[1] = "ok"
    THEN loaded[2]
    ELSE <<>>

\* lines 24-44: docs after the try/except around the loaders
LoadedDocs(loaded, filename) ==
    IF Lower(PathSuffix(filename)) \in {".pdf", ".txt", ".docx", ".doc"}
    THEN IF loaded[1] = "ok" THEN loaded[2] ELSE <<ErrorDocument(filename, loaded[2])>>
    ELSE <<ErrorDocument(filename, "Unsupported file type: " \o filename)>>

\* lines 47-53: the documents whose cleaned text is not blank, cleaned
KeptDoc(doc) == doc.page_content # "" /\ Strip(clean_text(doc.page_content)) # ""

ProcessedDocs(docs) ==
    LET kept == SelectSeq(docs, KeptDoc)
    IN  [i \in 1..Len(kept) |-> Document(clean_text(kept[i].page_content), kept[i].metadata)]

\* text_splitter.split_documents for texts that fit one chunk (at most
\* chunk_size characters): the pieces of the text are merged back into one
\* chunk that carries the document's metadata
split_documents(docs) ==
    [i \in 1..Len(docs) |->
        CASE Len(docs[i].page_content) <= CHUNK_SIZE ->
                Document(Strip(Join(Split(docs[i].page_content), " ")), docs[i].metadata)]

\* lines 56-59
load_and_split(loaded, filename) ==
    LET processed_docs == ProcessedDocs(LoadedDocs(loaded, filename))
    IN  IF processed_docs # <<>> THEN split_documents(processed_docs) ELSE <<>>

(***************************************************************************)
(* ingest_file_bytes on its own: one call for one file of one tenant, over *)
(* a store that is empty or already holds an earlier ingest of the tenant. *)
(***************************************************************************)
\* the texts a loader extracts from a page
PageTexts == {"alpha beta", "co- op ,ok", "#@", " "}

PdfPage(text, page) ==
    Document(text, << <<"title", PyStr("Guide")>>, <<"author", PyStr("")>>,
                      <<"page", PyInt(page)>> >>)

\* files of up to MaxPages pages
SmallFiles ==
    UNION {{[i \in 1..n |-> PdfPage(t[i], i - 1)] : t \in [1..n -> PageTexts]} : n \in 0..MaxPages}

\* a file of n pages, each with its own text
LongFile(n) == [i \in 1..n |-> PdfPage("p" \o ToString(i), i - 1)]

\* the page counts around the batch boundaries, up to MaxBatches full batches
LongSizes ==
    {n \in (BATCH_SIZE - 1)..(MaxBatches * BATCH_SIZE + 1) :
        n % BATCH_SIZE \in {0, 1, BATCH_SIZE - 1}}

IngestCalls ==
    {[tenant_id |-> t, filename |-> f, loaded |-> <<"ok", d>>] :
        t \in Tenants, f \in {"r.pdf", "R.PDF", "x.png"}, d \in SmallFiles}
    \cup {[tenant_id |-> t, filename |-> "r.pdf", loaded |-> <<"raise", "boom">>] : t \in Tenants}
    \cup {[tenant_id |-> "a", filename |-> "long.pdf", loaded |-> <<"ok", LongFile(n)>>] :
            n \in LongSizes}

InitIngest ==
    /\ content \in {EmptyStore, [EmptyStore EXCEPT ![doc_index_name("a")] = DocsOfA]}
    /\ exists = {n \in IndexNames : content[n] # <<>>}
    /\ NoRequest
    /\ callIn \in IngestCalls /\ callOut = NoCall

\* line 76
LoadAndSplit ==
    /\ callOut = NoCall
    /\ callOut' = [at |-> "loaded",
                   chunks |-> load_and_split(callIn.loaded, callIn.filename)]
    /\ UNCHANGED <<storeVars, faults, askVars, upVars, citeVars, callIn>>

\* lines 78-128: env and failAt are what the store does during the call
IndexChunks ==
    /\ callOut # NoCall /\ callOut.at = "loaded"
    /\ \E env \in RegistryEnvs(exists, doc_index_name(callIn.tenant_id)) :
       \E failAt \in IF callOut.chunks = <<>> \/ env.handle = "raise" THEN {0}
                     ELSE 0..NumBatches(Len(callOut.chunks)) :
          LET cost == (IF callOut.chunks = <<>> THEN 0
                       ELSE EnvFaults(exists, doc_index_name(callIn.tenant_id), env))
                      + (IF failAt # 0 THEN 1 ELSE 0)
          IN  /\ cost <= MaxFaults
              /\ faults' = faults + cost
              /\ LET r == ingest_file_bytes(exists, content, callOut.chunks, callIn.filename,
                                            callIn.tenant_id, env, failAt)
                 IN  /\ exists' = r.exists
                     /\ content' = r.content
                     /\ callOut' = [at |-> "returned", chunks |-> callOut.chunks,
                                    env |-> env, failAt |-> failAt,
                                    raised |-> r.raised, count |-> r.count,
                                    before |-> content[doc_index_name(callIn.tenant_id)],
                                    existed |-> exists]
    /\ UNCHANGED <<askVars, upVars, citeVars, callIn>>

IngestStep == LoadAndSplit \/ IndexChunks

SpecIngest == InitIngest /\ [][IngestStep]_vars

(***************************************************************************)
(* Properties of ingest_file_bytes.                                        *)
(***************************************************************************)
\* the call has returned or raised
IngestDone == callOut # NoCall /\ callOut.at = "returned"

\* the tenant's document index after the call, without what it held before
IngestWritten ==
    LET after == content[doc_index_name(callIn.tenant_id)]
    IN  SubSeq(after, Len(callOut.before) + 1, Len(after))

\* C12: the chunks go to the tenant's document index in chunk order in
\* batches of 100, one after the other.  When batch j fails ingest raises
\* and the index holds, after what it held before, exactly the chunks of
\* batches 1..j-1; when no batch fails every chunk is there exactly once and
\* the count returned is the number of chunks written.
C12_BatchedWrites ==
    (IngestDone /\ callOut.chunks # <<>> /\ callOut.env.handle = "ok") =>
        LET chunks == callOut.chunks
            n == Len(chunks)
            after == content[doc_index_name(callIn.tenant_id)]
            written == IngestWritten
        IN  /\ SubSeq(after, 1, Len(callOut.before)) = callOut.before
            /\ Len(written) <= n
            /\ \A i \in 1..Len(written) :
                  /\ written[i].doc = prepare_chunk(chunks[i], callIn.filename)
                  /\ written[i].by = callIn.tenant_id
            /\ callOut.raised <=> callOut.failAt # 0
            /\ callOut.raised =>
                  /\ Len(written) = (callOut.failAt - 1) * 100
                  /\ Len(written) < n
            /\ ~callOut.raised => Len(written) = n /\ callOut.count = n

\* the second of three batches failed: the first hundred chunks stay
C12_Witness ==
    /\ IngestDone /\ callOut.raised
    /\ callOut.failAt = 2 /\ Len(callOut.chunks) > 200
    /\ Len(IngestWritten) = 100

\* the file of the call fails extraction: its loader raises or its extension
\* is none of the supported ones
ExtractionFails ==
    \/ callIn.loaded[1] = "raise"
    \/ Lower(PathSuffix(callIn.filename)) \notin {".pdf", ".txt", ".docx", ".doc"}

ParsedOk ==
    /\ callIn.loaded[1] = "ok"
    /\ Lower(PathSuffix(callIn.filename)) \in {".pdf", ".txt", ".docx", ".doc"}

\* the items of an index that carry the file name of the call
ChunksOfFile(items) ==
    SelectSeq(items, LAMBDA it :
        DictGet(it.doc.metadata, "source_file", PyNone) = PyStr(callIn.filename))

\* the blocks of the parsed file whose text is not blank once normalized
SurvivingBlocks == SelectSeq(callIn.loaded[2], KeptDoc)

\* C14 as the specification states it: for a document that is parsed and
\* whose extracted text is not empty (here even: not blank once normalized),
\* ingest returns n > 0 and exactly n chunks of that file are in the tenant's
\* document index afterwards.
C14_CountMatchesIndex ==
    (IngestDone /\ ParsedOk /\ SurvivingBlocks # <<>>) =>
        /\ ~callOut.raised
        /\ callOut.count > 0
        /\ Len(ChunksOfFile(content[doc_index_name(callIn.tenant_id)])) = callOut.count

\* C14, amended: for a document that is parsed and has at least one block
\* whose normalized text is not blank, ingest, unless building the handle or
\* a batch write raises, returns n > 0, the number of chunks (one for each
\* such block), and exactly those n chunks, carrying the file's name, are
\* appended to the tenant's document index after what it already held.
C14_CountMatchesAppended ==
    (IngestDone /\ ParsedOk) =>
        LET blocks == SurvivingBlocks
            written == IngestWritten
        IN  blocks # <<>> =>
            /\ Len(callOut.chunks) = Len(blocks)
            /\ callOut.raised <=> (callOut.env.handle = "raise" \/ callOut.failAt # 0)
            /\ ~callOut.raised =>
                  /\ callOut.count > 0
                  /\ callOut.count = Len(callOut.chunks)
                  /\ Len(written) = callOut.count
                  /\ ChunksOfFile(written) = written
                  /\ content[doc_index_name(callIn.tenant_id)] = callOut.before \o written
                  /\ \A i \in 1..Len(written) :
                        written[i].doc.page_content = clean_text(blocks[i].page_content)

\* a file of two pages, one of them blank once normalized, ingested a second
\* time: one chunk is returned and the index now holds two chunks of the file
C14_Witness ==
    /\ IngestDone /\ ParsedOk /\ ~callOut.raised
    /\ Len(callIn.loaded[2]) = 2 /\ callOut.count = 1
    /\ callOut.before # <<>>
    /\ Len(ChunksOfFile(content[doc_index_name(callIn.tenant_id)])) = 2

(***************************************************************************)
(* /ingest-multiple-files on its own: one request with up to MaxFiles      *)
(* files, received and about to run.                                       *)
(***************************************************************************)
\* a file that yields one chunk, a file that yields none, a file of an
\* unsupported type, a file of two batches
UploadPool ==
    {[filename |-> "r.pdf", chunks |-> <<LoadedChunk>>],
     [filename |-> "big.pdf", chunks |-> [i \in 1..BATCH_SIZE + 1 |-> LoadedChunk]],
     [filename |-> "e.pdf", chunks |-> <<>>],
     [filename |-> "x.png", chunks |-> <<>>]}

UploadLists == UNION {[1..n -> UploadPool] : n \in 1..MaxFiles}

InitUpload ==
    /\ exists = {} /\ content = EmptyStore
    /\ faults = 0
    /\ pc = "idle" /\ tenant_id = "" /\ query = ""
    /\ chat_history = "" /\ context = "" /\ sources = EmptyDict
    /\ formatted_prompt = NoPrompt /\ pending = <<>>
    /\ response_chunks = <<>> /\ response = ""
    /\ termination = "none" /\ forwarded = <<>> /\ llmCalls = 0 /\ llmStatus = "none"
    /\ histFound = <<"none">> /\ docsFound = <<"none">>
    /\ writeResult = "none" /\ failedStep = "none" /\ recordsBefore = 0 /\ asks = 0
    /\ upPc = "start" /\ upTenant \in Tenants /\ upFiles \in UploadLists
    /\ total_chunks = 0 /\ errors = <<>> /\ uploadResponse = NoUpload
    /\ ingests = Len(upFiles)
    /\ citeDocs = <<>> /\ citeResult = NoCite
    /\ callIn = NoCall /\ callOut = NoCall

UploadStep == UploadStart \/ IngestNextFile \/ UploadReturn

SpecUpload == InitUpload /\ [][UploadStep]_vars

\* C15: every file of the batch is processed, in order, whatever happened to
\* the files before it: a step of the loop takes the first remaining file
\* and leaves the rest to be processed; an unsupported file or a file whose
\* ingest raises adds one entry to errors and nothing to total_chunks; a file
\* whose ingest returns adds its count to total_chunks and nothing to errors;
\* when no file remains the call answers 200 with that total and those
\* errors.
C15_PartialSuccess ==
    [][/\ (upPc = "files" /\ upFiles # <<>>) =>
             /\ upPc' = "files"
             /\ upFiles' = Tail(upFiles)
             /\ \/ /\ Len(errors') = Len(errors) + 1
                   /\ SubSeq(errors', 1, Len(errors)) = errors
                   /\ total_chunks' = total_chunks
                \/ /\ errors' = errors
                   /\ total_chunks' = total_chunks + Len(Head(upFiles).chunks)
                   /\ Len(content'[doc_index_name(upTenant)])
                         = Len(content[doc_index_name(upTenant)]) + Len(Head(upFiles).chunks)
             /\ ~(\E ext \in {".pdf", ".txt", ".docx", ".doc"} :
                      EndsWith(Head(upFiles).filename, ext)) =>
                   errors' = Append(errors, "Unsupported file type: " \o Head(upFiles).filename)
       /\ (upPc = "files" /\ upFiles = <<>>) =>
             uploadResponse' = [status |-> 200, total_chunks |-> total_chunks,
                                errors |-> errors]]_vars

\* an unsupported file and a file whose ingest raised, then a file ingested
C15_Witness ==
    /\ upPc = "idle" /\ uploadResponse.status = 200
    /\ uploadResponse.errors = <<"Unsupported file type: x.png", "Failed to ingest r.pdf">>
    /\ uploadResponse.total_chunks = 1

(***************************************************************************)
(* store.py : get_doc_vector_store / get_chat_history_vector_store called  *)
(* by MaxRequests requests at once (worker threads of asyncio.to_thread,   *)
(* server processes), each call step by step: the existence check, the     *)
(* create request, the handle.  callIn[r] is the (tenant, purpose) of      *)
(* request r; callOut.calls[r] is where its call is and what it has seen;  *)
(* callOut.createdBy[n] is the request whose create made index n.          *)
(***************************************************************************)
Requests == 1..MaxRequests

Purposes == {"doc", "chat_history"}

\* the index name of a call
index_name_of(call) ==
    IF call.purpose = "doc" THEN doc_index_name(call.tenant_id)
    ELSE chat_index_name(call.tenant_id)

\* create_attempted with a failing check taken as "the index exists"
create_attempted_on_404(check) == check = "404"

\* lines 37-42: the create request follows unless the check returned 200
create_attempted(check) == check # "200"

NotCalled == [at |-> "check", check |-> "unused", create |-> "unused",
              handle |-> "unused", raised |-> FALSE, index_name |-> ""]

InitRace ==
    /\ exists \in {{}, {doc_index_name("a")}}
    /\ content = EmptyStore
    /\ NoRequest
    /\ callIn \in [Requests -> [tenant_id : Tenants, purpose : Purposes]]
    /\ callOut = [calls |-> [r \in Requests |-> NotCalled],
                  createdBy |-> [n \in IndexNames |-> 0],
                  before |-> exists]

\* lines 30-42: requests.head
CheckIndex(r) ==
    /\ callOut.calls[r].at = "check"
    /\ \E check \in CheckOutcomes(exists, index_name_of(callIn[r])) :
          LET cost == IF check = "raise" THEN 1 ELSE 0
          IN  /\ faults + cost <= MaxFaults
              /\ faults' = faults + cost
              /\ callOut' = [callOut EXCEPT
                    !.calls[r].check = check,
                    !.calls[r].at = IF create_attempted(check) THEN "create" ELSE "handle"]
    /\ UNCHANGED <<storeVars, askVars, upVars, citeVars, callIn>>

\* lines 67-82: requests.put
CreateIndex(r) ==
    /\ callOut.calls[r].at = "create"
    /\ LET index_name == index_name_of(callIn[r])
       IN  \E create \in CreateOutcomes(exists, index_name) :
              LET env == [check |-> callOut.calls[r].check, create |-> create,
                          handle |-> "unused"]
                  cost == EnvFaults(exists, index_name, [env EXCEPT !.check = "unused"])
              IN  /\ faults + cost <= MaxFaults
                  /\ faults' = faults + cost
                  /\ exists' = create_index_if_not_exists(exists, index_name, env)
                  /\ callOut' = [callOut EXCEPT
                        !.calls[r].create = create,
                        !.calls[r].at = "handle",
                        !.createdBy[index_name] = IF create = "created" THEN r ELSE @]
    /\ UNCHANGED <<content, askVars, upVars, citeVars, callIn>>

\* store.py lines 91-99 / 108-116: OpenSearchVectorSearch(...)
BuildHandle(r) ==
    /\ callOut.calls[r].at = "handle"
    /\ \E handle \in {"ok", "raise"} :
          LET env == [check |-> callOut.calls[r].check, create |-> callOut.calls[r].create,
                      handle |-> handle]
              vs == IF callIn[r].purpose = "doc"
                    THEN get_doc_vector_store(exists, callIn[r].tenant_id, env)
                    ELSE get_chat_history_vector_store(exists, callIn[r].tenant_id, env)
              cost == IF handle = "raise" THEN 1 ELSE 0
          IN  /\ faults + cost <= MaxFaults
              /\ faults' = faults + cost
              /\ callOut' = [callOut EXCEPT
                    !.calls[r].handle = handle,
                    !.calls[r].raised = vs.raised,
                    !.calls[r].index_name = IF vs.raised THEN "" ELSE vs.index_name,
                    !.calls[r].at = "done"]
    /\ UNCHANGED <<storeVars, askVars, upVars, citeVars, callIn>>

RaceStep == \E r \in Requests : CheckIndex(r) \/ CreateIndex(r) \/ BuildHandle(r)

SpecRace == InitRace /\ [][RaceStep]_vars

\* C16: a call checks the index on every call, attempts the create exactly
\* when the check did not answer that the index exists (a failing check
\* counts as absent), raises neither a failing check nor a failing create,
\* and returns the handle bound to the index name of its (tenant, purpose)
\* whether the index pre-existed or the create succeeded, was refused or
\* raised.
C16_GetIndex ==
    \A r \in Requests :
        LET call == callOut.calls[r]
        IN  /\ call.at # "check" => call.check \in {"200", "404", "raise"}
            /\ call.at \in {"handle", "done"} =>
                  (call.create # "unused" <=> call.check \in {"404", "raise"})
            /\ call.at = "create" => call.check \in {"404", "raise"}
            /\ call.raised <=> call.handle = "raise"
            /\ (call.at = "done" /\ call.handle = "ok") =>
                  call.index_name =
                     (IF callIn[r].purpose = "doc" THEN "doc_" ELSE "chat_history_")
                        \o callIn[r].tenant_id

\* a call whose check failed and whose create raised still has its handle
C16_Witness ==
    \E r \in Requests :
        /\ callOut.calls[r].at = "done" /\ ~callOut.calls[r].raised
        /\ callOut.calls[r].check = "raise" /\ callOut.calls[r].create = "raise"
        /\ callOut.calls[r].index_name = index_name_of(callIn[r])


\* the requests that acquire the handle of index n
RequestsOf(n) == {r \in Requests : index_name_of(callIn[r]) = n}

\* C17: when two or more requests acquire the handle of one index that did
\* not exist, under every interleaving of their check and create steps each
\* request gets its handle (nothing but the handle constructor can raise), a
\* create refused because the index already exists raises nothing, at most
\* one create succeeds and the index is the one that create made, and once
\* all requests are done against a store that did not fail the index exists.
C17_ConcurrentFirstUse ==
    \A n \in IndexNames :
        LET rs == RequestsOf(n)
            made == {r \in rs : callOut.calls[r].create = "created"}
        IN  (Cardinality(rs) >= 2 /\ n \notin callOut.before) =>
               /\ \A r \in rs :
                     LET call == callOut.calls[r]
                     IN  /\ (call.at = "done" /\ call.handle = "ok") =>
                               (~call.raised /\ call.index_name = n)
                         /\ (call.at = "done" /\ call.create = "refused") =>
                               (call.raised => call.handle = "raise")
               /\ Cardinality(made) <= 1
               /\ n \in exists <=> made # {}
               /\ n \in exists => callOut.createdBy[n] \in made
               /\ ((\A r \in rs : callOut.calls[r].at = "done") /\ faults = 0) =>
                     n \in exists

\* two requests both found a new index absent and both sent the create: one
\* made the index, the other was refused, and both hold their handle
C17_Witness ==
    \E n \in IndexNames : \E r1, r2 \in RequestsOf(n) :
        /\ r1 # r2 /\ n \notin callOut.before /\ n \in exists
        /\ callOut.calls[r1].check = "404" /\ callOut.calls[r2].check = "404"
        /\ callOut.calls[r1].create = "created" /\ callOut.calls[r2].create = "refused"
        /\ callOut.createdBy[n] = r1
        /\ \A r \in {r1, r2} :
              /\ callOut.calls[r].at = "done" /\ ~callOut.calls[r].raised
              /\ callOut.calls[r].index_name = n


\* every block of the file is empty or blank once normalized
NoBlockSurvives == \A i \in 1..Len(callIn.loaded[2]) : ~KeptDoc(callIn.loaded[2][i])

\* C18: when the file is parsed and none of its blocks survives extraction
\* and normalization, ingest returns 0 and does not raise, and it neither
\* provisions nor writes the tenant's document index: the set of indexes and
\* what they hold are as before, whatever the store would have answered.
C18_EmptyFileReturnsZero ==
    (IngestDone /\ ParsedOk /\ NoBlockSurvives) =>
        /\ ~callOut.raised
        /\ callOut.count = 0
        /\ exists = callOut.existed
        /\ content[doc_index_name(callIn.tenant_id)] = callOut.before
        /\ faults = 0

\* a file of blank and symbol-only pages was ingested while the store would
\* have created the index, or would have failed to hand out the handle
C18_Witness ==
    /\ IngestDone /\ ParsedOk /\ NoBlockSurvives
    /\ Len(callIn.loaded[2]) = 2
    /\ callIn.loaded[2][1].page_content = "#@"
    /\ callIn.loaded[2][2].page_content = " "
    /\ callOut.env.check = "404" /\ callOut.env.create = "created"
    /\ callOut.env.handle = "raise"
    /\ doc_index_name(callIn.tenant_id) \notin exists
    /\ callOut.count = 0 /\ ~callOut.raised


(***************************************************************************)
(* ollama_embeddings.py : OllamaEmbeddings.  One reply of the embedding    *)
(* service to a POST is [kind, status, body]: kind "error" when the        *)
(* request raises a RequestException, else the status code and the body;   *)
(* the body is <<"invalid">> when response.json() raises, <<"null">> when  *)
(* it parses to None and <<"dict", d>> when it parses to the dict d.       *)
(* Vectors are sequences of numbers.                                       *)
(***************************************************************************)
PyList(v) == [t |-> "list", v |-> v]

\* [0.0] * 384
ZeroVector == [i \in 1..EMBED_DIM |-> 0]

RemoteVectors == {[i \in 1..EMBED_DIM |-> 1], <<2, 3>>}

EmbedBodies ==
    {<<"invalid">>, <<"null">>, <<"dict", EmptyDict>>,
     <<"dict", <<<<"error", PyStr("model not found")>>>>>>,
     <<"dict", <<<<"embedding", PyNone>>>>>>,
     <<"dict", <<<<"embedding", PyStr("0.1")>>>>>>,
     <<"dict", <<<<"embedding", PyList(<<>>)>>>>>>}
    \cup {<<"dict", <<<<"embedding", PyList(v)>>>>>> : v \in RemoteVectors}

EmbedReplies ==
    {[kind |-> "error", status |-> 0, body |-> <<"invalid">>],
     [kind |-> "response", status |-> 500, body |-> <<"invalid">>]}
    \cup {[kind |-> "response", status |-> 200, body |-> b] : b \in EmbedBodies}

\* _embed without the guard of lines 70-72
_embed_no_blank_guard(text, reply) ==
    LET posts == <<Strip(text)>>
        failed == [posts |-> posts, raised |-> TRUE, value |-> <<>>]
    IN  IF reply.kind = "error" THEN failed
        ELSE IF reply.status # 200 THEN failed
        ELSE IF reply.body[1] # "dict" THEN failed
        ELSE IF "embedding" \notin DictKeys(reply.body[2]) THEN failed
        ELSE LET embedding == DictGet(reply.body[2], "embedding", PyNone)
             IN  IF embedding.t # "list" \/ embedding.v = <<>> THEN failed
                 ELSE [posts |-> posts, raised |-> FALSE, value |-> embedding.v]

\* _embed(text) against a service that answers reply: the prompts posted,
\* whether ValueError is raised, the vector returned
_embed(text, reply) ==
    IF text = "" \/ Strip(text) = ""
    THEN [posts |-> <<>>, raised |-> FALSE, value |-> ZeroVector]
    ELSE LET posts == <<Strip(text)>>
             failed == [posts |-> posts, raised |-> TRUE, value |-> <<>>]
         IN  \* lines 107-110
             IF reply.kind = "error" THEN failed
             \* lines 86-89
             ELSE IF reply.status # 200 THEN failed
             \* line 91, lines 111-116: json() raises, or `in` raises on None
             ELSE IF reply.body[1] # "dict" THEN failed
             \* lines 93-96
             ELSE IF "embedding" \notin DictKeys(reply.body[2]) THEN failed
             ELSE LET embedding == DictGet(reply.body[2], "embedding", PyNone)
                  IN  \* lines 100-103
                      IF embedding.t # "list" \/ embedding.v = <<>> THEN failed
                      ELSE [posts |-> posts, raised |-> FALSE, value |-> embedding.v]

\* embed_query(text)
embed_query(text, reply) ==
    LET r == _embed(text, reply)
    IN  IF r.raised THEN [posts |-> r.posts, raised |-> FALSE, value |-> ZeroVector]
        ELSE r

\* the body of the loop of embed_documents with the exception of _embed
\* left to the caller
embed_documents_item_uncaught(text, reply) == _embed(text, reply)

\* lines 33-39: the body of the loop of embed_documents for one text
embed_documents_item(text, reply) ==
    LET r == _embed(text, reply)
    IN  IF r.raised THEN [posts |-> r.posts, raised |-> FALSE, value |-> ZeroVector]
        ELSE r

EmbedTexts == {"", " ", " hi "}

EmbedTextLists == UNION {[1..n -> EmbedTexts] : n \in 0..MaxTexts}

EmbedCalls ==
    [entry : {"_embed", "embed_query"}, texts : [1..1 -> EmbedTexts]]
    \cup [entry : {"embed_documents"}, texts : EmbedTextLists]

InitEmbed ==
    /\ exists = {} /\ content = EmptyStore
    /\ NoRequest
    /\ callIn \in EmbedCalls
    /\ callOut = [at |-> "called", embeddings |-> <<>>, posts |-> <<>>,
                  replies |-> <<>>]

\* one call of _embed or embed_query
EmbedOne ==
    /\ callIn.entry \in {"_embed", "embed_query"} /\ callOut.at = "called"
    /\ \E reply \in EmbedReplies :
          LET r == IF callIn.entry = "_embed" THEN _embed(callIn.texts[1], reply)
                   ELSE embed_query(callIn.texts[1], reply)
          IN  callOut' = [at |-> IF r.raised THEN "raised" ELSE "returned",
                          embeddings |-> IF r.raised THEN <<>> ELSE <<r.value>>,
                          posts |-> r.posts,
                          replies |-> <<reply>>]
    /\ UNCHANGED <<storeVars, faults, askVars, upVars, citeVars, callIn>>

\* lines 32-39: one iteration of the loop of embed_documents
EmbedDocumentsNext ==
    /\ callIn.entry = "embed_documents" /\ callOut.at = "called"
    /\ Len(callOut.embeddings) < Len(callIn.texts)
    /\ \E reply \in EmbedReplies :
          LET r == embed_documents_item(callIn.texts[Len(callOut.embeddings) + 1], reply)
          IN  callOut' = [at |-> IF r.raised THEN "raised" ELSE "called",
                          embeddings |-> IF r.raised THEN callOut.embeddings
                                         ELSE Append(callOut.embeddings, r.value),
                          posts |-> callOut.posts \o r.posts,
                          replies |-> Append(callOut.replies, reply)]
    /\ UNCHANGED <<storeVars, faults, askVars, upVars, citeVars, callIn>>

\* line 41
EmbedDocumentsReturn ==
    /\ callIn.entry = "embed_documents" /\ callOut.at = "called"
    /\ Len(callOut.embeddings) = Len(callIn.texts)
    /\ callOut' = [callOut EXCEPT !.at = "returned"]
    /\ UNCHANGED <<storeVars, faults, askVars, upVars, citeVars, callIn>>

EmbedStep == EmbedOne \/ EmbedDocumentsNext \/ EmbedDocumentsReturn

SpecEmbed == InitEmbed /\ [][EmbedStep]_vars

(***************************************************************************)
(* Properties of OllamaEmbeddings.                                         *)
(***************************************************************************)
Blank(text) == \A i \in 1..Len(text) : SubSeq(text, i, i) \in {" ", "\t", "\n", "\r"}

\* the reply carries an embedding: status 200 and a JSON object whose
\* embedding field is a non-empty list
ReplySucceeds(reply) ==
    /\ reply.kind = "response" /\ reply.status = 200 /\ reply.body[1] = "dict"
    /\ \E v \in RemoteVectors : reply.body[2] = <<<<"embedding", PyList(v)>>>>

\* C19: embed_documents never raises and never stops early: it returns one
\* vector per text in the order of the texts; the vector of a text that is
\* not blank is the embedding the service replied when its reply carried
\* one, and the zero vector of 384 dimensions when the request failed (bad
\* status, unparseable or wrong body, network error, embedding missing or
\* not a non-empty list); texts after a failed one are still embedded.
C19_EmbedDocumentsTotal ==
    callIn.entry = "embed_documents" =>
        /\ callOut.at # "raised"
        /\ Len(callOut.replies) = Len(callOut.embeddings)
        /\ callOut.at = "returned" => Len(callOut.embeddings) = Len(callIn.texts)
        /\ \A i \in 1..Len(callOut.embeddings) :
              LET text == callIn.texts[i]
                  reply == callOut.replies[i]
              IN  /\ (~Blank(text) /\ ReplySucceeds(reply)) =>
                        callOut.embeddings[i] = reply.body[2][1][2].v
                  /\ (~Blank(text) /\ ~ReplySucceeds(reply)) =>
                        /\ Len(callOut.embeddings[i]) = 384
                        /\ \A k \in 1..384 : callOut.embeddings[i][k] = 0

\* the request of the first text failed and the second text has its remote
\* embedding
C19_Witness ==
    /\ callIn.entry = "embed_documents" /\ callOut.at = "returned"
    /\ callIn.texts = <<" hi ", " hi ">>
    /\ callOut.replies[1].kind = "error" /\ ReplySucceeds(callOut.replies[2])
    /\ callOut.embeddings[1] = ZeroVector
    /\ callOut.embeddings[2] = <<2, 3>>
    /\ callOut.posts = <<"hi", "hi">>


\* C20: through _embed, embed_query and embed_documents alike, a text that
\* is empty or all whitespace is never posted to the embedding service (the
\* prompts posted are exactly the texts that are not blank, stripped) and
\* its vector is the zero vector of 384 dimensions, whatever the service
\* would have replied.
C20_BlankNeverPosted ==
    LET done == Len(callOut.replies)
        sent == {i \in 1..done : ~Blank(callIn.texts[i])}
    IN  /\ Len(callOut.posts) = Cardinality(sent)
        /\ \A k \in 1..Len(callOut.posts) : callOut.posts[k] = "hi"
        /\ \A i \in 1..done :
              Blank(callIn.texts[i]) =>
                 /\ callOut.at # "raised"
                 /\ Len(callOut.embeddings) >= i
                 /\ Len(callOut.embeddings[i]) = 384
                 /\ \A k \in 1..384 : callOut.embeddings[i][k] = 0

\* embed_documents was given a whitespace-only text for which the service
\* held an embedding ready, then a text that was posted
C20_Witness ==
    /\ callIn.entry = "embed_documents" /\ callOut.at = "returned"
    /\ callIn.texts = <<" ", " hi ">>
    /\ ReplySucceeds(callOut.replies[1]) /\ ReplySucceeds(callOut.replies[2])
    /\ callOut.embeddings[1] = ZeroVector
    /\ callOut.embeddings[2] # ZeroVector
    /\ callOut.posts = <<"hi">>


(***************************************************************************)
(* ollama_multimodel.py : OllamaMultimodal.stream, and the /ask-image      *)
(* endpoint of main.py that forwards it.  A line of the response body is   *)
(* <<"undecodable">> (not UTF-8), <<"blank">> (nothing left after strip),  *)
(* <<"badjson">> (json.loads raises JSONDecodeError) or <<"json", v>> with *)
(* v the value it parses to; a JSON object is [t |-> "dict", d |-> dict].  *)
(***************************************************************************)
PyDict(d) == [t |-> "dict", d |-> d]

\* the JSON objects {response: string, done: bool} of the model transport,
\* each field present or not
ResponseObjects ==
    {PyDict(r \o d) :
        r \in {<<>>} \cup {<<<<"response", PyStr(s)>>>> : s \in {"", "Hi"}},
        d \in {<<>>} \cup {<<<<"done", PyBool(b)>>>> : b \in BOOLEAN}}

ResponseLines ==
    {<<"undecodable">>, <<"blank">>, <<"badjson">>,
     <<"json", PyNone>>, <<"json", PyInt(7)>>, <<"json", PyStr("no response")>>,
     <<"json", PyList(<<PyStr("response")>>)>>}
    \cup {<<"json", v>> : v \in ResponseObjects}

\* stream_line with a malformed line ending the stream
stream_line_strict(line) ==
    IF line[1] # "json" \/ line[2].t # "dict"
    THEN [chunks |-> <<>>, stop |-> TRUE]
    ELSE [chunks |-> IF "response" \in DictKeys(line[2].d)
                     THEN <<DictGet(line[2].d, "response", PyNone).s>> ELSE <<>>,
          stop |-> Truthy(DictGet(line[2].d, "done", PyBool(FALSE)))]

\* lines 41-61: the body of the loop for one line: the chunks yielded and
\* whether the loop is left
stream_line(line) ==
    \* lines 44-45, 56-61: decode raises, nothing after strip, json.loads raises
    IF line[1] # "json" THEN [chunks |-> <<>>, stop |-> FALSE]
    \* lines 49-53 raise TypeError or AttributeError on a value that is no
    \* dict, line 59 catches it
    ELSE IF line[2].t # "dict" THEN [chunks |-> <<>>, stop |-> FALSE]
    ELSE [chunks |-> IF "response" \in DictKeys(line[2].d)
                     THEN <<DictGet(line[2].d, "response", PyNone).s>> ELSE <<>>,
          stop |-> Truthy(DictGet(line[2].d, "done", PyBool(FALSE)))]

\* generate_response with the exception of the model call left to the caller
generate_response_uncaught(sent, message) ==
    [forwarded |-> sent, outcome |-> "exception"]

\* main.py lines 294-300: the exception of the model call becomes one chunk
\* and the generator returns
generate_response(sent, message) ==
    [forwarded |-> Append(sent, "Error: " \o message), outcome |-> "normal"]

\* the exceptions of the model transport, by their text
ConnectErrors == {"Cannot connect to host localhost:11434"}
StatusErrors == {"Ollama API error: 500 - model not found",
                 "Connection closed"}
ReadErrors == {"Response payload is not completed"}

ImageCalls ==
    [query : {" ", "what is this"},
     images : UNION {[1..n -> {"", "a.png"}] : n \in 0..2}]

InitImage ==
    /\ exists = {} /\ content = EmptyStore
    /\ NoRequest
    /\ callIn \in ImageCalls
    /\ callOut = [at |-> "called", status |-> 0, lines |-> <<>>, eof |-> FALSE,
                  forwarded |-> <<>>, failure |-> "", outcome |-> "open"]

\* main.py lines 275-311: ask_image up to the StreamingResponse
AskImage ==
    /\ callOut.at = "called"
    /\ LET images_data == SelectSeq(callIn.images, LAMBDA f : f # "")
       IN  IF Strip(callIn.query) = "" \/ callIn.images = <<>> \/ images_data = <<>>
           THEN callOut' = [callOut EXCEPT !.at = "ended", !.status = 400]
           ELSE callOut' = [callOut EXCEPT !.at = "post", !.status = 200]
    /\ UNCHANGED <<storeVars, faults, askVars, upVars, citeVars, callIn>>

\* ollama_multimodel.py lines 29-37: the request is answered with status 200
PostAnswered ==
    /\ callOut.at = "post"
    /\ callOut' = [callOut EXCEPT !.at = "reading"]
    /\ UNCHANGED <<storeVars, faults, askVars, upVars, citeVars, callIn>>

\* lines 29-37: the request fails, or is answered with another status
PostFails ==
    /\ callOut.at = "post"
    /\ \E message \in ConnectErrors \cup StatusErrors :
          LET g == generate_response(callOut.forwarded, message)
          IN  callOut' = [callOut EXCEPT !.at = "ended", !.failure = message,
                                         !.forwarded = g.forwarded,
                                         !.outcome = g.outcome]
    /\ UNCHANGED <<storeVars, faults, askVars, upVars, citeVars, callIn>>

\* lines 40-61: the next line of the body
ReadLine ==
    /\ callOut.at = "reading"
    /\ Len(callOut.lines) < MaxLines
    /\ \E line \in ResponseLines :
          LET r == stream_line(line)
          IN  callOut' = [callOut EXCEPT
                 !.lines = Append(@, line),
                 !.forwarded = @ \o r.chunks,
                 !.at = IF r.stop THEN "ended" ELSE "reading",
                 !.outcome = IF r.stop THEN "normal" ELSE "open"]
    /\ UNCHANGED <<storeVars, faults, askVars, upVars, citeVars, callIn>>

\* line 40: the body ends
ReadEnd ==
    /\ callOut.at = "reading"
    /\ callOut' = [callOut EXCEPT !.at = "ended", !.eof = TRUE, !.outcome = "normal"]
    /\ UNCHANGED <<storeVars, faults, askVars, upVars, citeVars, callIn>>

\* line 40: reading the body raises
ReadFails ==
    /\ callOut.at = "reading"
    /\ \E message \in ReadErrors :
          LET g == generate_response(callOut.forwarded, message)
          IN  callOut' = [callOut EXCEPT !.at = "ended", !.failure = message,
                                         !.forwarded = g.forwarded,
                                         !.outcome = g.outcome]
    /\ UNCHANGED <<storeVars, faults, askVars, upVars, citeVars, callIn>>

ImageStep == AskImage \/ PostAnswered \/ PostFails \/ ReadLine \/ ReadEnd \/ ReadFails

SpecImage == InitImage /\ [][ImageStep]_vars

(***************************************************************************)
(* Properties of the image side-channel.                                   *)
(***************************************************************************)
\* the line is a JSON object
WellFormedLine(line) == line[1] = "json" /\ line[2].t = "dict"

\* the line is a JSON object whose done flag is true
DoneLine(line) ==
    /\ WellFormedLine(line)
    /\ \E i \in 1..Len(line[2].d) : line[2].d[i] = <<"done", PyBool(TRUE)>>

\* the response fields of the well-formed lines, in order
RECURSIVE ResponseFields(_)
ResponseFields(lines) ==
    IF lines = <<>> THEN <<>>
    ELSE LET line == Head(lines)
             here == IF WellFormedLine(line)
                     THEN LET fields == SelectSeq(line[2].d, LAMBDA kv : kv[1] = "response")
                          IN  [i \in 1..Len(fields) |-> fields[i][2].s]
                     ELSE <<>>
         IN  here \o ResponseFields(Tail(lines))

\* C21: as long as the transport does not fail, the chunks forwarded are the
\* response fields of the well-formed lines read, verbatim and in order;
\* lines that do not decode, are blank, do not parse or are no JSON object
\* forward nothing and reading goes on after them until the body ends; the
\* first line whose done flag is true is the last line read.
C21_ForwardUntilDone ==
    callOut.failure = "" =>
        /\ callOut.forwarded = ResponseFields(callOut.lines)
        /\ \A i \in 1..Len(callOut.lines) :
              /\ DoneLine(callOut.lines[i]) =>
                    (i = Len(callOut.lines) /\ callOut.at = "ended")
              /\ (~DoneLine(callOut.lines[i]) /\ i = Len(callOut.lines)) =>
                    callOut.at = "reading" \/ (callOut.at = "ended" /\ callOut.eof)
        /\ callOut.at = "ended" => callOut.outcome = "normal" \/ callOut.status = 400

\* a chunk, a line that does not parse, then a done line that carries a chunk
C21_Witness ==
    /\ callOut.at = "ended" /\ callOut.failure = ""
    /\ Len(callOut.lines) = 3
    /\ callOut.lines[1] = <<"json", PyDict(<<<<"response", PyStr("Hi")>>, <<"done", PyBool(FALSE)>>>>)>>
    /\ callOut.lines[2] = <<"badjson">>
    /\ callOut.lines[3] = <<"json", PyDict(<<<<"response", PyStr("")>>, <<"done", PyBool(TRUE)>>>>)>>
    /\ callOut.forwarded = <<"Hi", "">>


\* C22: when the request to the multimodal model fails, is answered with a
\* status other than 200, or reading its body raises, before or after chunks
\* were forwarded, the caller receives the chunks forwarded so far followed
\* by exactly one chunk "Error: <message>", and the stream then ends
\* normally: no exception leaves the generator.
C22_FailureIsOneErrorChunk ==
    callOut.failure # "" =>
        /\ callOut.at = "ended"
        /\ callOut.outcome = "normal"
        /\ callOut.forwarded =
              Append(ResponseFields(callOut.lines), "Error: " \o callOut.failure)

\* reading the body raised after one chunk had been forwarded
C22_Witness ==
    /\ callOut.at = "ended" /\ callOut.outcome = "normal"
    /\ callOut.lines = <<<<"json", PyDict(<<<<"response", PyStr("Hi")>>>>)>>>>
    /\ callOut.failure = "Response payload is not completed"
    /\ callOut.forwarded = <<"Hi", "Error: Response payload is not completed">>


(***************************************************************************)
(* Properties of the chat-history index.                                   *)
(***************************************************************************)
\* the ask has run to its end after the model stream ended or raised
StreamServed ==
    pc = "done" /\ termination = "normal" /\ llmStatus \in {"ended", "raised"}

\* the form of the chat record of the ask being served
IsChatRecord(doc) ==
    /\ doc.page_content = "Q: " \o query \o "\nA: " \o response
    /\ doc.metadata = << <<"type", PyStr("chat_history")>>,
                         <<"tenant_id", PyStr(tenant_id)>>,
                         <<"query", PyStr(query)>>,
                         <<"response", PyStr(response)>> >>

\* C23 as the specification states it: every ask whose model stream ended,
\* normally or by an error, has added exactly one chat record to the
\* tenant's chat-history index.
C23_ExactlyOneRecord ==
    StreamServed =>
        LET idx == content[chat_index_name(tenant_id)]
        IN  /\ Len(idx) = recordsBefore + 1
            /\ IsChatRecord(idx[Len(idx)].doc)

\* C23 amended: an ask whose model stream ended, normally or by an error,
\* has attempted the write once and added one chat record of the stated form
\* when the write succeeded and none when it failed; a step changes the
\* chat-history index of the asking tenant only, by appending one record:
\* no record is modified or removed.
C23_AtMostOneRecordAppendOnly ==
    /\ [](StreamServed =>
            LET idx == content[chat_index_name(tenant_id)]
            IN  /\ writeResult \in {"ok", "failed"}
                /\ writeResult = "ok" =>
                      /\ Len(idx) = recordsBefore + 1
                      /\ IsChatRecord(idx[Len(idx)].doc)
                      /\ response = Join(forwarded, "") \o "\n\nSources:\n"
                                       \o formatted_prompt.sources_block
                /\ writeResult = "failed" => Len(idx) = recordsBefore)
    /\ [][\A t \in Tenants :
            LET old == content[chat_index_name(t)]
                new == content'[chat_index_name(t)]
            IN  \/ new = old
                \/ /\ t = tenant_id /\ pc = "store"
                   /\ Len(new) = Len(old) + 1
                   /\ SubSeq(new, 1, Len(old)) = old]_vars

\* an ask of a tenant with earlier records streamed to the end and added its
\* record behind them
C23_Witness ==
    /\ StreamServed /\ llmStatus = "ended" /\ writeResult = "ok"
    /\ recordsBefore >= 1
    /\ Len(content[chat_index_name(tenant_id)]) = recordsBefore + 1
    /\ IsChatRecord(content[chat_index_name(tenant_id)][recordsBefore + 1].doc)


\* C24: all through an ask the chunks collected for the chat record are a
\* prefix of the chunks handed to the caller, shorter by at most one chunk,
\* the one the generator is suspended on (or was, when the caller went away
\* there); once the model stream has been left the two are equal, the text
\* handed to the write is their concatenation followed by the sources
\* section, and so is the answer of the record written.
C24_RecordBehindCaller ==
    LET n == Len(response_chunks)
    IN  /\ n <= Len(forwarded)
        /\ response_chunks = SubSeq(forwarded, 1, n)
        /\ Len(forwarded) <= n + 1
        /\ Len(forwarded) = n + 1 =>
              /\ pc = "yield" \/ (pc = "done" /\ termination = "cancelled")
              /\ pending = <<forwarded[n + 1]>>
        /\ pc \in {"finalize", "store"} => response_chunks = forwarded
        /\ pc = "store" \/ (pc = "done" /\ writeResult # "none") =>
              response = Join(forwarded, "") \o "\n\nSources:\n" \o SourcesBlock(sources)
        /\ (pc = "done" /\ writeResult = "ok") =>
              LET idx == content[chat_index_name(tenant_id)]
              IN  idx[Len(idx)].doc.page_content =
                     "Q: " \o query \o "\nA: " \o Join(forwarded, "")
                        \o "\n\nSources:\n" \o SourcesBlock(sources)

\* the generator is suspended on the second chunk: the caller has two
\* chunks, one is collected
C24_Witness ==
    /\ pc = "yield"
    /\ Len(forwarded) = 2 /\ Len(response_chunks) = 1
    /\ response_chunks[1] = forwarded[1]
    /\ pending = <<forwarded[2]>>


(***************************************************************************)
(* Properties of the upload's chunk count.                                 *)
(***************************************************************************)
\* the chunks in the document indexes of the tenants in ts
RECURSIVE DocsWritten(_, _)
DocsWritten(store, ts) ==
    IF ts = {} THEN 0
    ELSE LET t == CHOOSE x \in ts : TRUE
         IN  Len(store[doc_index_name(t)]) + DocsWritten(store, ts \ {t})

\* the entries of errors left by files whose ingest raised
FailedIngests(errs) == SelectSeq(errs, LAMBDA e : StartsWith(e, "Failed to ingest"))

\* C25: the total an upload reports never exceeds the number of chunks the
\* call wrote to the document index, and equals it unless the ingest of a
\* file raised; a file whose ingest returns adds the same number to both; a
\* file whose ingest raises adds nothing to the total, one entry to errors,
\* and leaves written the whole batches that preceded the failing one, fewer
\* than its chunks.
C25_TotalNeverExceedsWritten ==
    /\ [](LET written == DocsWritten(content, Tenants)
          IN  /\ total_chunks <= written
              /\ (upPc = "files" /\ FailedIngests(errors) = <<>>) => total_chunks = written
              /\ uploadResponse.status = 200 =>
                    /\ uploadResponse.total_chunks <= written
                    /\ FailedIngests(uploadResponse.errors) = <<>> =>
                          uploadResponse.total_chunks = written)
    /\ [][(upPc = "files" /\ upFiles # <<>>) =>
             LET dw == DocsWritten(content', Tenants) - DocsWritten(content, Tenants)
                 dt == total_chunks' - total_chunks
                 new == content'[doc_index_name(upTenant)]
             IN  \/ errors' = errors /\ dw = dt /\ dt = Len(Head(upFiles).chunks)
                 \/ /\ Len(errors') = Len(errors) + 1
                    /\ dt = 0
                    /\ dw >= 0 /\ dw % BATCH_SIZE = 0
                    /\ dw > 0 =>
                          /\ dw < Len(Head(upFiles).chunks)
                          /\ Len(FailedIngests(errors')) = Len(FailedIngests(errors)) + 1
                          /\ Len(new) = Len(content[doc_index_name(upTenant)]) + dw]_vars

\* the second batch of a long file failed: its first batch is indexed, the
\* file counts for nothing, and the file after it was ingested and counted
C25_Witness ==
    /\ upPc = "idle" /\ uploadResponse.status = 200
    /\ uploadResponse.errors = <<"Failed to ingest big.pdf">>
    /\ uploadResponse.total_chunks = 1
    /\ DocsWritten(content, Tenants) = BATCH_SIZE + 1

====
